---- MODULE Spec2Model ----
(***************************************************************************)
(* CompressPro: the transcoding pipeline of VideoCompressionWorker.run,    *)
(* the encoder resolver of SystemDetector and the handlers of              *)
(* CompressProMainWindow that start, cancel and finish a run (main.py).    *)
(*                                                                         *)
(* The worker thread is a program counter over the statements of run();    *)
(* the GUI thread interleaves with it through cancel() and receives the    *)
(* finished signal through a queued connection.  Every call into the       *)
(* multimedia framework (av.open, add_stream, decode, encode, mux,         *)
(* reformat, close) either returns or raises.                              *)
(***************************************************************************)
EXTENDS Integers, Sequences, FiniteSets, TLC

(* ------------------------------ bounds --------------------------------- *)
MaxVFrames == 2      \* video frames the input can yield
MaxAFrames == 1      \* audio frames the input can yield
MaxRuns    == 1      \* runs started from the window
MaxStarts  == 2      \* runs started over the life of the window

(* ------------------------- program constants --------------------------- *)
DefaultRate == 30          \* main.py:190  assumed frame rate
FallbackTotal == 1000      \* main.py:192  fallback frame estimate
StatusEvery == 30          \* main.py:249  status every 30 frames

Codecs == {"h264", "h265", "vp9", "av1"}

(* ------------------------------ helpers -------------------------------- *)
Min(a, b) == IF a < b THEN a ELSE b

Range(s) == {s[i] : i \in 1..Len(s)}

\* s contains the token sequence t as a contiguous subsequence
Contains(s, t) ==
    \E i \in 0..(Len(s) - Len(t)) : \A j \in 1..Len(t) : s[i + j] = t[j]

(* ------------------------- SystemDetector ------------------------------ *)
\* encoder_priority table of get_optimal_encoder
encoder_priority(codec) ==
    CASE codec = "h264" -> <<"libx264", "h264_nvenc", "h264_qsv", "h264_vaapi", "h264_videotoolbox">>
      [] codec = "h265" -> <<"libx265", "hevc_nvenc", "hevc_qsv", "hevc_vaapi", "hevc_videotoolbox">>
      [] codec = "vp9"  -> <<"libvpx-vp9", "vp9_vaapi">>
      [] codec = "av1"  -> <<"libsvtav1", "av1_qsv", "av1_vaapi", "av1_nvenc">>
      [] OTHER          -> <<>>

\* fallback table of get_optimal_encoder
software_fallback(codec) ==
    CASE codec = "h264" -> "libx264"
      [] codec = "h265" -> "libx265"
      [] codec = "vp9"  -> "libvpx-vp9"
      [] codec = "av1"  -> "libsvtav1"
      [] OTHER          -> "libx264"

\* first encoder of the priority list that the framework lists, else the
\* hardcoded software encoder
get_optimal_encoder_last(codec, available_encoders) ==
    LET prio == encoder_priority(codec)
        hits == {i \in 1..Len(prio) : prio[i] \in available_encoders}
    IN  IF hits # {}
        THEN prio[CHOOSE i \in hits : \A j \in hits : i >= j]
        ELSE software_fallback(codec)

get_optimal_encoder(codec, available_encoders) ==
    LET prio == encoder_priority(codec)
        hits == {i \in 1..Len(prio) : prio[i] \in available_encoders}
    IN  IF hits # {}
        THEN prio[CHOOSE i \in hits : \A j \in hits : i <= j]
        ELSE software_fallback(codec)

get_fallback_encoders(codec) ==
    CASE codec = "h264" -> <<"libx264", "h264_nvenc">>
      [] codec = "h265" -> <<"libx265", "hevc_nvenc">>
      [] codec = "vp9"  -> <<"libvpx-vp9">>
      [] codec = "av1"  -> <<"libsvtav1", "libaom-av1">>
      [] OTHER          -> <<"libx264">>

\* the encoder identifiers a codec family can name
FamilyEncoders(codec) ==
    Range(encoder_priority(codec)) \cup Range(get_fallback_encoders(codec))

\* gpu_map of update_settings_from_ui
GpuChoices == {"auto", "nvenc", "qsv", "vaapi", "cpu"}

\* run(), lines 197-207: the attempt plan built for a settings record, the
\* primary candidate followed by the fallback list
AttemptPlanByPreference(s, available_encoders) ==
    LET prio == encoder_priority(s.codec)
        mine == {i \in 1..Len(prio) :
                    /\ prio[i] \in available_encoders
                    /\ prio[i] = s.codec \o "_" \o s.gpu_acceleration}
    IN  (IF mine # {}
         THEN <<prio[CHOOSE i \in mine : TRUE]>>
         ELSE <<get_optimal_encoder(s.codec, available_encoders)>>)
        \o get_fallback_encoders(s.codec)

AttemptPlan(s, available_encoders) ==
    <<get_optimal_encoder(s.codec, available_encoders)>>
        \o get_fallback_encoders(s.codec)

(* --------------------------- message texts ----------------------------- *)
\* Texts are sequences of tokens, so that "contains" is decidable.
MsgInputNotFound == <<"Input", "file", "not", "found", ":", "INPUT">>
MsgIndexError    == <<"tuple", "index", "out", "of", "range">>   \* str(IndexError)
MsgNoVideoStream == <<"No", "video", "stream", "found", "in", "input", "file">>
MsgNoEncoder     == <<"No", "working", "video", "encoder", "found">>
MsgZeroDivision  == <<"division", "by", "zero">>
MsgBadBitrate    == <<"could", "not", "convert", "string", "to", "float">>
MsgAvError       == <<"framework", "error">>
MsgCancelled     == <<"Compression", "cancelled", "by", "user">>
MsgCompleted     == <<"Compression", "completed", "successfully", "!">>

NoExc == [type |-> "none", msg |-> <<>>]
Exc(t, m) == [type |-> t, msg |-> m]

\* error_msg = f"Compression failed: {str(e)}"
ErrorMsgNoCause(e) == <<"Compression", "failed", ":">>

ErrorMsg(e) == <<"Compression", "failed", ":">> \o e.msg

IsFinished(e) == e.sig = "finished"
IsProgress(e) == e.sig = "progress"

Status(m)      == [sig |-> "status",   success |-> FALSE, value |-> 0, msg |-> m]
Progress(n)    == [sig |-> "progress", success |-> FALSE, value |-> n, msg |-> <<>>]
Finished(b, m) == [sig |-> "finished", success |-> b,     value |-> 0, msg |-> m]

\* lines 286-288: what the except block emits for the exception e
ExceptEmitsNoFinished(e) == <<Status(ErrorMsg(e))>>

ExceptEmits(e) == <<Status(ErrorMsg(e)), Finished(FALSE, ErrorMsg(e))>>

(* ------------------------------- state --------------------------------- *)
VARIABLES
    \* CompressProMainWindow
    compression_worker,   \* "none" or "worker"
    start_btn,            \* start button enabled
    cancel_btn,           \* cancel button enabled
    sigq,                 \* finished signals queued for the GUI thread
    runs,                 \* runs started so far
    saves,                \* times save_settings wrote the settings file
    message_box,          \* what the window last presented to the user
    window,               \* "shown", "asking" or "waiting" inside closeEvent, "closed"
    \* environment
    fs,                   \* the file system: does the output file exist
    media,                \* what the run has read of the input so far
    \* VideoCompressionWorker
    settings,
    is_cancelled,
    pc,
    exc,                  \* the exception being handled
    input_container,      \* "none", "open" or "closed"
    output_container,
    total_frames,
    processed_frames,
    plan,                 \* [encoder_name] + fallback_encoders
    attempt,              \* index of the next candidate of the plan
    out_streams,          \* streams added to the output container
    video_output_stream,  \* 0 for None, else index into out_streams
    audio_output_stream,
    vdec,                 \* decoder positions and encoder buffers
    adec,
    muxed,                \* packets handed to output_container.mux
    events,               \* signals emitted by the worker, in order
    hist,                 \* history of the run, for stating the properties
    \* a function of the program applied on its own
    call                  \* its arguments and, once applied, what it returns

guiVars == <<compression_worker, start_btn, cancel_btn, sigq, runs, saves,
             message_box, window>>
envVars == <<fs, media>>
runVars == <<settings, is_cancelled, pc, exc, input_container, output_container,
             total_frames, processed_frames, plan, attempt, out_streams,
             video_output_stream, audio_output_stream, vdec, adec, muxed,
             events, hist>>
vars == <<guiVars, envVars, runVars, call>>

(* ---------------------- inputs of a run (bounded) ---------------------- *)
\* CompressionSettings() as constructed by the window
DefaultSettings ==
    [input_file |-> "", output_file |-> "", codec |-> "h264",
     quality_mode |-> "crf", bitrate |-> "1M", resolution |-> "original",
     gpu_acceleration |-> "auto", audio_codec |-> "aac",
     crf_value |-> 23, preset |-> "medium", threads |-> 0]

\* the codec families the runs of the model request
RunCodecs == {"h264", "vp9"}

\* what update_settings_from_ui can store once validate_settings passed
SettingsChoices ==
    {[input_file |-> "INPUT", output_file |-> "OUTPUT", codec |-> c,
      quality_mode |-> q[1], bitrate |-> q[2], resolution |-> q[3],
      gpu_acceleration |-> "auto", audio_codec |-> "aac",
      crf_value |-> 23, preset |-> "medium", threads |-> 0] :
        c \in RunCodecs,
        q \in {<<"crf", "1M", "original">>, <<"bitrate", "1M", "720p">>,
               <<"bitrate", "abc", "original">>}}

\* What the run has read of the input, -1 while unread: the answer of
\* os.path.exists, the number of video streams and of audio streams.  The
\* input is whatever file the user selected, so each fact is drawn when the
\* run reads it.
NoMedia == [exists |-> -1, video |-> -1, audio |-> -1]

\* metadata of the video stream: frames (0 when the container reports none),
\* duration (0 for None) and average_rate as <<numerator, denominator>>
\* (<<0, 1>> for None)
StreamMetas ==
    [frames : 0..1, duration : 0..1, average_rate : {<<0, 1>>, <<1, 2>>, <<1, 1>>}]

\* an encoder the framework can have, given that the resolver chose primary:
\* some set of listed encoders yields that primary and contains enc
MayHaveTriples ==
    {t \in UNION {{c} \X FamilyEncoders(c) \X FamilyEncoders(c) : c \in Codecs} :
        \E S \in SUBSET FamilyEncoders(t[1]) :
            /\ get_optimal_encoder(t[1], S) = t[2]
            /\ t[3] \in S}

MayHave(codec, primary, enc) == <<codec, primary, enc>> \in MayHaveTriples

(* ------------------------ pure parts of the worker --------------------- *)
\* lines 183-192: the total used as the progress denominator
EstimateTotalFrames(m) ==
    IF m.frames # 0 THEN m.frames
    ELSE IF m.duration # 0
         THEN IF m.average_rate[1] # 0
              THEN (m.duration * m.average_rate[1]) \div m.average_rate[2]
              ELSE m.duration * DefaultRate
         ELSE FallbackTotal

\* line 246: min(100, int((processed / total) * 100)), total # 0.  The float
\* product equals the exact quotient for every value below the cap.
ProgressValueUncapped(processed, total) == (processed * 100) \div total

ProgressValue(processed, total) == Min(100, (processed * 100) \div total)

\* get_resolution_dimensions (lines 377-384): resolutions.get(resolution,
\* (1920, 1080))
get_resolution_dimensions_4x3(resolution) ==
    CASE resolution = "1080p" -> <<1920, 1080>>
      [] resolution = "720p"  -> <<1280, 720>>
      [] resolution = "480p"  -> <<640, 480>>
      [] OTHER                -> <<1920, 1080>>

get_resolution_dimensions(resolution) ==
    CASE resolution = "1080p" -> <<1920, 1080>>
      [] resolution = "720p"  -> <<1280, 720>>
      [] resolution = "480p"  -> <<854, 480>>
      [] OTHER                -> <<1920, 1080>>

\* setup_video_encoder, lines 301-308: width and height set on the output
\* stream for an input stream of the dimensions input
ConfiguredDimensions(resolution, input) ==
    IF resolution = "original" THEN input
    ELSE get_resolution_dimensions(resolution)

\* a test that resizes for the listed presets only
ResizeNeededForListed(resolution) == resolution \in {"1080p", "720p", "480p"}

\* line 238: the test that sends a frame to resize_frame
ResizeNeeded(resolution) == resolution # "original"

\* lines 237-239 with resize_frame (372-375): the dimensions of the frame
\* handed to the encoder
FrameToEncoder(resolution, input) ==
    IF ResizeNeeded(resolution) THEN get_resolution_dimensions(resolution)
    ELSE input

(* parse_bitrate (lines 386-394).  A text is the sequence of its characters. *)
Digits == {"0", "1", "2", "3", "4", "5", "6", "7", "8", "9"}

DigitValue(c) ==
    CASE c = "0" -> 0 [] c = "1" -> 1 [] c = "2" -> 2 [] c = "3" -> 3
      [] c = "4" -> 4 [] c = "5" -> 5 [] c = "6" -> 6 [] c = "7" -> 7
      [] c = "8" -> 8 [] c = "9" -> 9

\* str.upper() over the letters the texts of the model use
UpperChar(c) ==
    CASE c = "k" -> "K" [] c = "m" -> "M" [] c = "a" -> "A"
      [] c = "b" -> "B" [] c = "c" -> "C" [] OTHER -> c

Upper(text) == [i \in 1..Len(text) |-> UpperChar(text[i])]

RECURSIVE DigitsValue(_)
DigitsValue(ds) ==
    IF ds = <<>> THEN 0
    ELSE DigitsValue(SubSeq(ds, 1, Len(ds) - 1)) * 10 + DigitValue(ds[Len(ds)])

IsDigit(c) == c \in Digits
IsDot(c) == c = "."

\* int(text): the text is a non-empty run of digits
IntLiteral(text) == text # <<>> /\ \A i \in 1..Len(text) : IsDigit(text[i])

\* float(text): digits with at most one point and at least one digit
FloatLiteral(text) ==
    /\ \A i \in 1..Len(text) : IsDigit(text[i]) \/ IsDot(text[i])
    /\ Len(SelectSeq(text, IsDot)) <= 1
    /\ SelectSeq(text, IsDigit) # <<>>

\* the decimal a float literal denotes, as <<n, d>> for n / 10^d
Decimal(text) ==
    LET dots == {i \in 1..Len(text) : IsDot(text[i])}
        d == IF dots = {} THEN 0 ELSE Len(text) - (CHOOSE i \in dots : TRUE)
    IN  <<DigitsValue(SelectSeq(text, IsDigit)), d>>

\* The decimals of the model's texts whose product with the factor, computed
\* in binary double precision, lies just below the exact product:
\* float("4.1") * 1000000 = 4099999.9999999995 and
\* float("8.2") * 1000000 = 8199999.999999999, which int() truncates.
BelowExact == {<<41, 1, 1000000>>, <<82, 1, 1000000>>}

\* int(float(text) * factor)
IntOfFloatTimes(text, factor) ==
    LET n == Decimal(text)[1]
        d == Decimal(text)[2]
        exact == (n * factor) \div (10 ^ d)
    IN  IF <<n, d, factor>> \in BelowExact THEN exact - 1 ELSE exact

Returned(v) == [ok |-> TRUE, value |-> v]
ValueError  == [ok |-> FALSE, value |-> 0]

parse_bitrate(bitrate_str) ==
    LET u == Upper(bitrate_str)
        body == SubSeq(u, 1, Len(u) - 1)
    IN  IF u # <<>> /\ u[Len(u)] = "K"
        THEN IF FloatLiteral(body) THEN Returned(IntOfFloatTimes(body, 1000))
             ELSE ValueError
        ELSE IF u # <<>> /\ u[Len(u)] = "M"
        THEN IF FloatLiteral(body) THEN Returned(IntOfFloatTimes(body, 1000000))
             ELSE ValueError
        ELSE IF IntLiteral(u) THEN Returned(DigitsValue(u))
             ELSE ValueError

\* the characters of the bitrate texts that settings carry
BitrateText(b) ==
    CASE b = "1M"     -> <<"1", "M">>
      [] b = "500K"   -> <<"5", "0", "0", "K">>
      [] b = "2.5M"   -> <<"2", ".", "5", "M">>
      [] b = "128000" -> <<"1", "2", "8", "0", "0", "0">>
      [] b = "128k"   -> <<"1", "2", "8", "k">>
      [] b = "abc"    -> <<"a", "b", "c">>

\* parse_bitrate raises ValueError on a string that is no number with an
\* optional K or M suffix
ParsableBitrates ==
    {b \in {"1M", "500K", "2.5M", "128000", "128k", "abc"} :
        parse_bitrate(BitrateText(b)).ok}

BitrateParses(b) == b \in ParsableBitrates

\* line 171: not os.path.exists(input_file), over the answer 0 or 1
InputMissingNever(exists) == FALSE

InputMissing(exists) == exists = 0

\* line 207: the for loop moves to the next candidate of the plan
NextCandidateSkips(i) == i + 2

NextCandidate(i) == i + 1

\* a stream object is always truthy (line 179)
Truthy(stream) == TRUE

InitHist ==
    [cancelAt |-> -1, observed |-> FALSE, afterObserved |-> 0,
     inOpened |-> FALSE, outOpened |-> FALSE, outCreated |-> FALSE,
     audioNeg |-> FALSE, flushed |-> {}, fwFail |-> FALSE,
     attempts |-> <<>>, vEnd |-> FALSE, aEnd |-> FALSE,
     validated |-> [input_file_edit |-> "", output_file_edit |-> "",
                    exists |-> FALSE]]

InitDec == [decoded |-> 0, submitted |-> 0, buffered |-> 0]

\* QMessageBox.<icon>(self, title, text) together with the mark that
\* update_status puts before the text in the status label
NoBox == [icon |-> "none", title |-> "", mark |-> "", text |-> <<>>]
MessageBox(icon, title, mark, text) ==
    [icon |-> icon, title |-> title, mark |-> mark, text |-> text]

\* lines 1020-1025: how a finished(success, message) signal is presented
PresentFinished(success, message) ==
    IF success
    THEN MessageBox("information", "Success", "check-mark", message)
    ELSE MessageBox("critical", "Error", "cross-mark", message)

(* -------------------------------- Init --------------------------------- *)
InitProgram ==
    /\ compression_worker = "none"
    /\ start_btn = TRUE
    /\ cancel_btn = FALSE
    /\ sigq = <<>>
    /\ runs = 0
    /\ saves = 0
    /\ message_box = NoBox
    /\ window = "shown"
    /\ fs = [output |-> FALSE]
    /\ media = NoMedia
    /\ settings = DefaultSettings
    /\ is_cancelled = FALSE
    /\ pc = "idle"
    /\ exc = NoExc
    /\ input_container = "none"
    /\ output_container = "none"
    /\ total_frames = 0
    /\ processed_frames = 0
    /\ plan = <<>>
    /\ attempt = 0
    /\ out_streams = <<>>
    /\ video_output_stream = 0
    /\ audio_output_stream = 0
    /\ vdec = InitDec
    /\ adec = InitDec
    /\ muxed = <<>>
    /\ events = <<>>
    /\ hist = InitHist

\* no function is applied on its own
NoCall == [fn |-> "none", done |-> TRUE]

Init ==
    /\ InitProgram
    /\ call = NoCall

(* ------------------------- CompressProMainWindow ----------------------- *)
\* the texts of the two path fields and what os.path.exists answers for the
\* input text when the start button is clicked
UiInputs ==
    [input_file_edit : {"", " ", "INPUT"}, output_file_edit : {"", "OUTPUT"},
     exists : BOOLEAN]

\* str.strip() over the texts of UiInputs
Strip(text) == IF text = " " THEN "" ELSE text

Valid == <<>>

\* validate_settings (lines 956-970): the warning it shows, Valid for True
validate_settings_lax(ui) == Valid

validate_settings(ui) ==
    IF Strip(ui.input_file_edit) = ""
    THEN <<"Please", "select", "an", "input", "file">>
    ELSE IF Strip(ui.output_file_edit) = ""
    THEN <<"Please", "specify", "an", "output", "file">>
    ELSE IF ~(ui.exists /\ ui.input_file_edit = "INPUT")
    THEN <<"Input", "file", "does", "not", "exist">>
    ELSE Valid

\* line 936: self.start_btn.setEnabled(False)
StartBtnWhileRunningLeftOn == TRUE

StartBtnWhileRunning == FALSE

\* start_compression (lines 927-948): validate_settings, update_settings_from_ui,
\* buttons, then construct and start the worker.  The handler runs for one of
\* the given settings while fewer than limit runs were started.
StartCompression(limit, choices) ==
    /\ window = "shown"
    /\ start_btn
    /\ runs < limit
    /\ \/ \* the warning box is shown and dismissed, and the handler returns
          /\ \E ui \in UiInputs : validate_settings(ui) # Valid
          /\ UNCHANGED <<compression_worker, start_btn, cancel_btn, runs,
                         message_box, media, runVars>>
       \/ \E ui \in UiInputs, s \in choices :
              /\ validate_settings(ui) = Valid
              /\ settings' = [s EXCEPT !.input_file = ui.input_file_edit,
                                       !.output_file = ui.output_file_edit]
              /\ hist' = [InitHist EXCEPT !.validated = ui]
              /\ media' = NoMedia
              /\ start_btn' = StartBtnWhileRunning
              /\ cancel_btn' = TRUE
              /\ compression_worker' = "worker"
              /\ runs' = runs + 1
              /\ message_box' = NoBox
              /\ is_cancelled' = FALSE
              /\ pc' = "start"
              /\ exc' = NoExc
              /\ input_container' = "none"
              /\ output_container' = "none"
              /\ total_frames' = 0
              /\ processed_frames' = 0
              /\ plan' = <<>>
              /\ attempt' = 0
              /\ out_streams' = <<>>
              /\ video_output_stream' = 0
              /\ audio_output_stream' = 0
              /\ vdec' = InitDec
              /\ adec' = InitDec
              /\ muxed' = <<>>
              /\ events' = <<>>
    /\ UNCHANGED <<call, window, sigq, saves, fs>>

start_compression == StartCompression(MaxRuns, SettingsChoices)

\* VideoCompressionWorker.cancel (lines 161-163): the flag after the call
cancel_toggles(flag) == ~flag

cancel(flag) == TRUE

\* cancel_compression (lines 950-954) calling VideoCompressionWorker.cancel
\* (lines 161-163)
cancel_compression ==
    /\ window = "shown"
    /\ cancel_btn
    /\ compression_worker # "none"
    /\ is_cancelled' = cancel(is_cancelled)
    /\ hist' = IF hist.cancelAt = -1 /\ pc # "done"
               THEN [hist EXCEPT !.cancelAt = vdec.submitted]
               ELSE hist
    /\ UNCHANGED <<call, guiVars, envVars, settings, pc, exc, input_container,
                   output_container, total_frames, processed_frames, plan,
                   attempt, out_streams, video_output_stream,
                   audio_output_stream, vdec, adec, muxed, events>>

\* save_settings after every terminal signal
SavesAfterFinishedAlways(success, n) == n + 1

\* lines 1027-1029: save_settings is called on success only; n counts the
\* writes of the settings file
SavesAfterFinished(success, n) == IF success THEN n + 1 ELSE n

\* on_compression_finished (lines 1014-1029), run in the GUI thread when the
\* queued finished signal is delivered
on_compression_finished ==
    /\ window = "shown"
    /\ sigq # <<>>
    /\ sigq' = Tail(sigq)
    /\ start_btn' = TRUE
    /\ cancel_btn' = FALSE
    /\ message_box' = PresentFinished(Head(sigq).success, Head(sigq).msg)
    /\ saves' = SavesAfterFinished(Head(sigq).success, saves)
    /\ UNCHANGED <<call, window, compression_worker, runs, envVars, runVars>>

(* --------------------- VideoCompressionWorker.run ---------------------- *)
workerGui == <<compression_worker, start_btn, cancel_btn, runs, saves,
              message_box, window>>

\* lines 167-172: first status, then the existence check of the input
run_init ==
    /\ pc = "start"
    /\ \E exists \in 0..1 :
         /\ media' = [media EXCEPT !.exists = exists]
         /\ IF InputMissing(exists)
            THEN /\ exc' = Exc("FileNotFoundError", MsgInputNotFound)
                 /\ pc' = "except"
            ELSE /\ pc' = "open_input"
                 /\ UNCHANGED exc
    /\ events' = Append(events, Status(<<"Initializing", "compression">>))
    /\ UNCHANGED <<call, guiVars, fs, settings, is_cancelled, input_container,
                   output_container, total_frames, processed_frames, plan,
                   attempt, out_streams, video_output_stream,
                   audio_output_stream, vdec, adec, muxed, hist>>

\* line 175: av.open(input_file)
run_open_input ==
    /\ pc = "open_input"
    /\ \/ /\ input_container' = "open"
          /\ hist' = [hist EXCEPT !.inOpened = TRUE]
          /\ pc' = "get_stream"
          /\ UNCHANGED exc
       \/ /\ exc' = Exc("AvError", MsgAvError)
          /\ hist' = [hist EXCEPT !.fwFail = TRUE]
          /\ pc' = "except"
          /\ UNCHANGED input_container
    /\ UNCHANGED <<call, guiVars, envVars, settings, is_cancelled, output_container,
                   total_frames, processed_frames, plan, attempt, out_streams,
                   video_output_stream, audio_output_stream, vdec, adec,
                   muxed, events>>

\* lines 178-194: streams.video[0] (IndexError on an empty tuple), the
\* truthiness test of the stream, the frame estimate and its status
run_get_stream ==
    /\ pc = "get_stream"
    /\ \E video \in 0..1 :
         /\ media' = [media EXCEPT !.video = video]
         /\ IF video = 0
            THEN /\ exc' = Exc("IndexError", MsgIndexError)
                 /\ pc' = "except"
                 /\ UNCHANGED <<total_frames, events>>
            ELSE IF ~Truthy(video)
            THEN /\ exc' = Exc("ValueError", MsgNoVideoStream)
                 /\ pc' = "except"
                 /\ UNCHANGED <<total_frames, events>>
            ELSE \E m \in StreamMetas :
                 /\ total_frames' = EstimateTotalFrames(m)
                 /\ events' = Append(events,
                        Status(<<"Processing", ToString(EstimateTotalFrames(m)), "frames">>))
                 /\ pc' = "resolve"
                 /\ UNCHANGED exc
    /\ UNCHANGED <<call, guiVars, fs, settings, is_cancelled, input_container,
                   output_container, processed_frames, plan, attempt,
                   out_streams, video_output_stream, audio_output_stream,
                   vdec, adec, muxed, hist>>

\* lines 197-198: the resolver's primary candidate
run_resolve ==
    /\ pc = "resolve"
    /\ \E available_encoders \in SUBSET FamilyEncoders(settings.codec) :
         plan' = <<get_optimal_encoder(settings.codec, available_encoders)>>
    /\ events' = Append(events, Status(<<"Trying", "encoder", ":", plan'[1]>>))
    /\ pc' = "open_output"
    /\ UNCHANGED <<call, guiVars, envVars, settings, is_cancelled, exc,
                   input_container, output_container, total_frames,
                   processed_frames, attempt, out_streams,
                   video_output_stream, audio_output_stream, vdec, adec,
                   muxed, hist>>

\* lines 201-207: av.open(output_file, mode='w') creates the file; the
\* attempt plan is the primary candidate followed by the fallback list
run_open_output ==
    /\ pc = "open_output"
    /\ \/ /\ output_container' = "open"
          /\ fs' = [fs EXCEPT !.output = TRUE]
          /\ hist' = [hist EXCEPT !.outOpened = TRUE, !.outCreated = TRUE]
          /\ plan' = plan \o get_fallback_encoders(settings.codec)
          /\ attempt' = 1
          /\ pc' = "negotiate"
          /\ UNCHANGED exc
       \/ /\ exc' = Exc("AvError", MsgAvError)
          /\ hist' = [hist EXCEPT !.fwFail = TRUE]
          /\ pc' = "except"
          /\ UNCHANGED <<output_container, fs, plan, attempt>>
    /\ UNCHANGED <<call, guiVars, media, settings, is_cancelled, input_container,
                   total_frames, processed_frames, out_streams,
                   video_output_stream, audio_output_stream, vdec, adec,
                   muxed, events>>

\* the stream setup_video_encoder adds for an encoder
VideoStream(enc, done) == [kind |-> "video", codec |-> enc, configured |-> done]

\* a configuration that fails for the software encoder of the family only
ConfigurationRaisesForSoftware(encoder_name, s) ==
    encoder_name = software_fallback(s.codec)

\* setup_video_encoder after add_stream (lines 301-346): the statement of
\* the program that can raise is parse_bitrate (342), reached in every mode
\* but CRF whatever the encoder; int(self.settings.fps) (319) gets an item
\* of the fps combo, which is a number
ConfigurationRaises(encoder_name, s) ==
    s.quality_mode # "crf" /\ ~BitrateParses(s.bitrate)

\* lines 207-217 with setup_video_encoder (293-348): one iteration of the
\* attempt loop.  add_stream raises for an encoder the framework does not
\* have and may raise for one it has; after the stream is added the only
\* raise is parse_bitrate's (line 342).
run_attempt ==
    /\ pc = "negotiate"
    /\ attempt <= Len(plan)
    /\ LET enc == plan[attempt]
           st  == Status(<<"Attempting", "encoder", ":", enc>>)
           failed(m) == Status(<<"Encoder", enc, "failed", ":">> \o m)
       IN  \/ \* add_stream raises, wrapped in RuntimeError (lines 297-299)
              /\ events' = events \o <<st,
                     failed(<<"Failed", "to", "create", "stream", "with",
                              "encoder", enc, ":">> \o MsgAvError)>>
              /\ hist' = [hist EXCEPT !.attempts = Append(@, enc), !.fwFail = TRUE]
              /\ attempt' = NextCandidate(attempt)
              /\ UNCHANGED <<out_streams, video_output_stream, pc>>
           \/ \* the stream is added, parse_bitrate raises ValueError
              /\ MayHave(settings.codec, plan[1], enc)
              /\ ConfigurationRaises(enc, settings)
              /\ out_streams' = Append(out_streams, VideoStream(enc, FALSE))
              /\ events' = events \o <<st, failed(MsgBadBitrate)>>
              /\ hist' = [hist EXCEPT !.attempts = Append(@, enc)]
              /\ attempt' = NextCandidate(attempt)
              /\ UNCHANGED <<video_output_stream, pc>>
           \/ \* the stream is added and configured
              /\ MayHave(settings.codec, plan[1], enc)
              /\ ~ConfigurationRaises(enc, settings)
              /\ out_streams' = Append(out_streams, VideoStream(enc, TRUE))
              /\ video_output_stream' = Len(out_streams) + 1
              /\ events' = events \o <<st, Status(<<"Using", "encoder", ":", enc>>)>>
              /\ hist' = [hist EXCEPT !.attempts = Append(@, enc)]
              /\ pc' = "audio_setup"
              /\ UNCHANGED attempt
    /\ UNCHANGED <<call, guiVars, envVars, settings, is_cancelled, exc,
                   input_container, output_container, total_frames,
                   processed_frames, plan, audio_output_stream, vdec, adec,
                   muxed>>

\* lines 219-220: the loop ended without a stream
run_no_encoder ==
    /\ pc = "negotiate"
    /\ attempt > Len(plan)
    /\ IF video_output_stream = 0
       THEN /\ exc' = Exc("RuntimeError", MsgNoEncoder)
            /\ pc' = "except"
       ELSE /\ pc' = "audio_setup"
            /\ UNCHANGED exc
    /\ UNCHANGED <<call, guiVars, envVars, settings, is_cancelled, input_container,
                   output_container, total_frames, processed_frames, plan,
                   attempt, out_streams, video_output_stream,
                   audio_output_stream, vdec, adec, muxed, events, hist>>

\* an audio stream of a codec that was not asked for
setup_audio_encoder_mp3(audio_codec) ==
    [kind |-> "audio", codec |-> "mp3", configured |-> TRUE]

\* setup_audio_encoder (lines 350-370): the stream that
\* add_stream(self.settings.audio_codec) adds, its rate, layout and bit rate
\* set
setup_audio_encoder(audio_codec) ==
    [kind |-> "audio", codec |-> audio_codec, configured |-> TRUE]

\* lines 223-230 with setup_audio_encoder (350-370)
run_audio_setup ==
    /\ pc = "audio_setup"
    /\ \E audio \in 0..1 :
         /\ media' = [media EXCEPT !.audio = audio]
         /\ IF audio > 0
            THEN \/ /\ out_streams' = Append(out_streams,
                           setup_audio_encoder(settings.audio_codec))
                    /\ audio_output_stream' = Len(out_streams) + 1
                    /\ hist' = [hist EXCEPT !.audioNeg = TRUE]
                    /\ pc' = "v_decode"
                    /\ UNCHANGED exc
                 \/ /\ exc' = Exc("AvError", MsgAvError)
                    /\ hist' = [hist EXCEPT !.audioNeg = TRUE, !.fwFail = TRUE]
                    /\ pc' = "except"
                    /\ UNCHANGED <<out_streams, audio_output_stream>>
            ELSE /\ pc' = "v_decode"
                 /\ UNCHANGED <<out_streams, audio_output_stream, exc, hist>>
    /\ processed_frames' = 0
    /\ UNCHANGED <<call, guiVars, fs, settings, is_cancelled, input_container,
                   output_container, total_frames, plan, attempt,
                   video_output_stream, vdec, adec, muxed, events>>

\* lines 242-243, 258-259, 266-267, 271-272: "for packet in stream.encode(..):
\* output_container.mux(packet)" hands over the k packets the encoder
\* returns, the encoder's packets number n+1 .. n+k, in the order returned
PacketsReversed(tag, n, k) == [i \in 1..k |-> [tag |-> tag, n |-> n + k + 1 - i]]

Packets(tag, n, k) == [i \in 1..k |-> [tag |-> tag, n |-> n + i]]

\* packets an encoder has returned so far
Produced(dec) == dec.submitted - dec.buffered

frameworkRaise ==
    /\ exc' = Exc("AvError", MsgAvError)
    /\ pc' = "except"

\* a loop body that goes on whatever the flag
LoopBreaksNever(flag) == FALSE

\* lines 234-235 and 256-257: `if self.is_cancelled: break`, the first
\* statement of the loop body, run when the generator has given the frame
LoopBreaks(flag) == flag

\* line 233: the generator input_container.decode(video=0) is advanced
run_v_decode ==
    /\ pc = "v_decode"
    /\ \/ \* the next frame
          /\ vdec.decoded < MaxVFrames
          /\ vdec' = [vdec EXCEPT !.decoded = @ + 1]
          /\ pc' = "v_check"
          /\ UNCHANGED <<exc, hist>>
       \/ \* decoding raises
          /\ frameworkRaise
          /\ hist' = [hist EXCEPT !.fwFail = TRUE]
          /\ UNCHANGED vdec
       \/ \* the input is exhausted
          /\ pc' = "a_begin"
          /\ hist' = [hist EXCEPT !.vEnd = TRUE]
          /\ UNCHANGED <<vdec, exc>>
    /\ UNCHANGED <<call, guiVars, envVars, settings, is_cancelled, input_container,
                   output_container, total_frames, processed_frames, plan,
                   attempt, out_streams, video_output_stream,
                   audio_output_stream, adec, muxed, events>>

\* lines 234-235: the flag is read; break when set
run_v_check ==
    /\ pc = "v_check"
    /\ IF LoopBreaks(is_cancelled)
       THEN /\ pc' = "a_begin"
            /\ hist' = [hist EXCEPT !.observed = TRUE]
       ELSE /\ pc' = "v_encode"
            /\ UNCHANGED hist
    /\ UNCHANGED <<call, guiVars, envVars, settings, is_cancelled, exc,
                   input_container, output_container, total_frames,
                   processed_frames, plan, attempt, out_streams,
                   video_output_stream, audio_output_stream, vdec, adec,
                   muxed, events>>

\* lines 238-243: resize_frame when a resolution is requested, encode(frame),
\* mux of every packet the encoder returns
run_v_encode ==
    /\ pc = "v_encode"
    /\ LET late == IF hist.observed THEN 1 ELSE 0
           sub(h) == [h EXCEPT !.afterObserved = @ + late]
       IN
       \/ \* frame.reformat raises
          /\ ResizeNeeded(settings.resolution)
          /\ frameworkRaise
          /\ hist' = [hist EXCEPT !.fwFail = TRUE]
          /\ UNCHANGED <<vdec, muxed>>
       \/ \* encode(frame) raises
          /\ frameworkRaise
          /\ vdec' = [vdec EXCEPT !.submitted = @ + 1]
          /\ hist' = [sub(hist) EXCEPT !.fwFail = TRUE]
          /\ UNCHANGED muxed
       \/ \E k \in 0..(vdec.buffered + 1) :
            \/ \* k packets come out and are muxed
               /\ vdec' = [vdec EXCEPT !.submitted = @ + 1,
                                       !.buffered = @ + 1 - k]
               /\ muxed' = muxed \o Packets("v", Produced(vdec), k)
               /\ hist' = sub(hist)
               /\ pc' = "v_progress"
               /\ UNCHANGED exc
            \/ \* mux raises after j of the k packets
               \E j \in 0..(k - 1) :
               /\ vdec' = [vdec EXCEPT !.submitted = @ + 1,
                                       !.buffered = @ + 1 - k]
               /\ muxed' = muxed \o SubSeq(Packets("v", Produced(vdec), k), 1, j)
               /\ hist' = [sub(hist) EXCEPT !.fwFail = TRUE]
               /\ frameworkRaise
    /\ UNCHANGED <<call, guiVars, envVars, settings, is_cancelled, input_container,
                   output_container, total_frames, processed_frames, plan,
                   attempt, out_streams, video_output_stream,
                   audio_output_stream, adec, events>>

\* lines 245-250: the counter, the progress signal, the periodic status
run_v_progress ==
    /\ pc = "v_progress"
    /\ processed_frames' = processed_frames + 1
    /\ IF total_frames = 0
       THEN /\ exc' = Exc("ZeroDivisionError", MsgZeroDivision)
            /\ pc' = "except"
            /\ UNCHANGED events
       ELSE /\ events' = events
                 \o <<Progress(ProgressValue(processed_frames', total_frames))>>
                 \o (IF processed_frames' % StatusEvery = 0
                     THEN <<Status(<<"Processed", ToString(processed_frames'),
                                     "/", ToString(total_frames), "frames">>)>>
                     ELSE <<>>)
            /\ pc' = "v_decode"
            /\ UNCHANGED exc
    /\ UNCHANGED <<call, guiVars, envVars, settings, is_cancelled, input_container,
                   output_container, total_frames, plan, attempt, out_streams,
                   video_output_stream, audio_output_stream, vdec, adec,
                   muxed, hist>>

\* lines 253-254
run_a_begin ==
    /\ pc = "a_begin"
    /\ IF audio_output_stream # 0
       THEN /\ events' = Append(events, Status(<<"Processing", "audio">>))
            /\ pc' = "a_decode"
       ELSE /\ pc' = "flush_check"
            /\ UNCHANGED events
    /\ UNCHANGED <<call, guiVars, envVars, settings, is_cancelled, exc,
                   input_container, output_container, total_frames,
                   processed_frames, plan, attempt, out_streams,
                   video_output_stream, audio_output_stream, vdec, adec,
                   muxed, hist>>

\* line 255: the generator input_container.decode(audio=0) is advanced
run_a_decode ==
    /\ pc = "a_decode"
    /\ \/ /\ adec.decoded < MaxAFrames
          /\ adec' = [adec EXCEPT !.decoded = @ + 1]
          /\ pc' = "a_check"
          /\ UNCHANGED <<exc, hist>>
       \/ /\ frameworkRaise
          /\ hist' = [hist EXCEPT !.fwFail = TRUE]
          /\ UNCHANGED adec
       \/ /\ pc' = "flush_check"
          /\ hist' = [hist EXCEPT !.aEnd = TRUE]
          /\ UNCHANGED <<adec, exc>>
    /\ UNCHANGED <<call, guiVars, envVars, settings, is_cancelled, input_container,
                   output_container, total_frames, processed_frames, plan,
                   attempt, out_streams, video_output_stream,
                   audio_output_stream, vdec, muxed, events>>

\* lines 256-257
run_a_check ==
    /\ pc = "a_check"
    /\ IF LoopBreaks(is_cancelled)
       THEN /\ pc' = "flush_check"
            /\ hist' = [hist EXCEPT !.observed = TRUE]
       ELSE /\ pc' = "a_encode"
            /\ UNCHANGED hist
    /\ UNCHANGED <<call, guiVars, envVars, settings, is_cancelled, exc,
                   input_container, output_container, total_frames,
                   processed_frames, plan, attempt, out_streams,
                   video_output_stream, audio_output_stream, vdec, adec,
                   muxed, events>>

\* lines 258-259
run_a_encode ==
    /\ pc = "a_encode"
    /\ \/ /\ frameworkRaise
          /\ adec' = [adec EXCEPT !.submitted = @ + 1]
          /\ hist' = [hist EXCEPT !.fwFail = TRUE]
          /\ UNCHANGED muxed
       \/ \E k \in 0..(adec.buffered + 1) :
            \/ /\ adec' = [adec EXCEPT !.submitted = @ + 1,
                                       !.buffered = @ + 1 - k]
               /\ muxed' = muxed \o Packets("a", Produced(adec), k)
               /\ pc' = "a_decode"
               /\ UNCHANGED <<exc, hist>>
            \/ \E j \in 0..(k - 1) :
               /\ adec' = [adec EXCEPT !.submitted = @ + 1,
                                       !.buffered = @ + 1 - k]
               /\ muxed' = muxed \o SubSeq(Packets("a", Produced(adec), k), 1, j)
               /\ hist' = [hist EXCEPT !.fwFail = TRUE]
               /\ frameworkRaise
    /\ UNCHANGED <<call, guiVars, envVars, settings, is_cancelled, input_container,
                   output_container, total_frames, processed_frames, plan,
                   attempt, out_streams, video_output_stream,
                   audio_output_stream, vdec, events>>

\* a pipeline that never flushes
FlushEnteredNever(flag) == FALSE

\* line 262: `if not self.is_cancelled:` guards the whole flush
FlushEntered(flag) == ~flag

\* lines 262-263: the flag is read; the flush is entered when it is clear
run_flush_check ==
    /\ pc = "flush_check"
    /\ IF FlushEntered(is_cancelled)
       THEN /\ events' = Append(events, Status(<<"Finalizing">>))
            /\ pc' = "flush_video"
       ELSE /\ pc' = "close_input"
            /\ UNCHANGED events
    /\ UNCHANGED <<call, guiVars, envVars, settings, is_cancelled, exc,
                   input_container, output_container, total_frames,
                   processed_frames, plan, attempt, out_streams,
                   video_output_stream, audio_output_stream, vdec, adec,
                   muxed, hist>>

\* lines 266-267: video_output_stream.encode() drains the encoder
run_flush_video ==
    /\ pc = "flush_video"
    /\ LET next == IF audio_output_stream # 0 THEN "flush_audio" ELSE "close_input"
       IN
       \/ /\ frameworkRaise
          /\ hist' = [hist EXCEPT !.fwFail = TRUE]
          /\ UNCHANGED <<vdec, muxed>>
       \/ /\ vdec' = [vdec EXCEPT !.buffered = 0]
          /\ muxed' = muxed \o Packets("fv", Produced(vdec), vdec.buffered)
          /\ hist' = [hist EXCEPT !.flushed = @ \cup {"video"}]
          /\ pc' = next
          /\ UNCHANGED exc
       \/ \E j \in 0..(vdec.buffered - 1) :
          /\ vdec' = [vdec EXCEPT !.buffered = 0]
          /\ muxed' = muxed \o SubSeq(Packets("fv", Produced(vdec), vdec.buffered), 1, j)
          /\ hist' = [hist EXCEPT !.flushed = @ \cup {"video"}, !.fwFail = TRUE]
          /\ frameworkRaise
    /\ UNCHANGED <<call, guiVars, envVars, settings, is_cancelled, input_container,
                   output_container, total_frames, processed_frames, plan,
                   attempt, out_streams, video_output_stream,
                   audio_output_stream, adec, events>>

\* lines 270-272: audio_output_stream.encode() drains the encoder
run_flush_audio ==
    /\ pc = "flush_audio"
    /\ \/ /\ frameworkRaise
          /\ hist' = [hist EXCEPT !.fwFail = TRUE]
          /\ UNCHANGED <<adec, muxed>>
       \/ /\ adec' = [adec EXCEPT !.buffered = 0]
          /\ muxed' = muxed \o Packets("fa", Produced(adec), adec.buffered)
          /\ hist' = [hist EXCEPT !.flushed = @ \cup {"audio"}]
          /\ pc' = "close_input"
          /\ UNCHANGED exc
       \/ \E j \in 0..(adec.buffered - 1) :
          /\ adec' = [adec EXCEPT !.buffered = 0]
          /\ muxed' = muxed \o SubSeq(Packets("fa", Produced(adec), adec.buffered), 1, j)
          /\ hist' = [hist EXCEPT !.flushed = @ \cup {"audio"}, !.fwFail = TRUE]
          /\ frameworkRaise
    /\ UNCHANGED <<call, guiVars, envVars, settings, is_cancelled, input_container,
                   output_container, total_frames, processed_frames, plan,
                   attempt, out_streams, video_output_stream,
                   audio_output_stream, vdec, events>>

\* line 275: input_container.close()
run_close_input ==
    /\ pc = "close_input"
    /\ \/ /\ input_container' = "closed"
          /\ pc' = "close_output"
          /\ UNCHANGED <<exc, hist>>
       \/ /\ frameworkRaise
          /\ hist' = [hist EXCEPT !.fwFail = TRUE]
          /\ UNCHANGED input_container
    /\ UNCHANGED <<call, guiVars, envVars, settings, is_cancelled, output_container,
                   total_frames, processed_frames, plan, attempt, out_streams,
                   video_output_stream, audio_output_stream, vdec, adec,
                   muxed, events>>

\* line 276: output_container.close()
run_close_output ==
    /\ pc = "close_output"
    /\ \/ /\ output_container' = "closed"
          /\ pc' = "final"
          /\ UNCHANGED <<exc, hist>>
       \/ /\ frameworkRaise
          /\ hist' = [hist EXCEPT !.fwFail = TRUE]
          /\ UNCHANGED output_container
    /\ UNCHANGED <<call, guiVars, envVars, settings, is_cancelled, input_container,
                   total_frames, processed_frames, plan, attempt, out_streams,
                   video_output_stream, audio_output_stream, vdec, adec,
                   muxed, events>>

\* the terminal signal emitted before the last status and progress
FinalEmitsFinishedFirst(flag) ==
    IF flag
    THEN <<Finished(FALSE, MsgCancelled)>>
    ELSE <<Finished(TRUE, MsgCompleted), Status(MsgCompleted), Progress(100)>>

\* lines 278-283: what the run emits once both containers are closed
FinalEmits(flag) ==
    IF flag
    THEN <<Finished(FALSE, MsgCancelled)>>
    ELSE <<Status(MsgCompleted), Progress(100), Finished(TRUE, MsgCompleted)>>

\* lines 278-283: the flag is read once more and the terminal signal emitted
run_final ==
    /\ pc = "final"
    /\ LET out == FinalEmits(is_cancelled)
       IN  /\ events' = events \o out
           /\ sigq' = sigq \o SelectSeq(out, IsFinished)
    /\ pc' = "finally"
    /\ UNCHANGED <<call, workerGui, envVars, settings, is_cancelled, exc,
                   input_container, output_container, total_frames,
                   processed_frames, plan, attempt, out_streams,
                   video_output_stream, audio_output_stream, vdec, adec,
                   muxed, hist>>

\* lines 285-288: the handler of every Exception raised in the try block
run_except ==
    /\ pc = "except"
    /\ events' = events \o ExceptEmits(exc)
    /\ sigq' = sigq \o SelectSeq(ExceptEmits(exc), IsFinished)
    /\ exc' = NoExc
    /\ pc' = "finally"
    /\ UNCHANGED <<call, workerGui, envVars, settings, is_cancelled,
                   input_container, output_container, total_frames,
                   processed_frames, plan, attempt, out_streams,
                   video_output_stream, audio_output_stream, vdec, adec,
                   muxed, hist>>

\* lines 289-291: gc.collect() while the locals still refer to the
\* containers; no close() is called here
run_finally ==
    /\ pc = "finally"
    /\ pc' = "done"
    /\ UNCHANGED <<call, guiVars, envVars, settings, is_cancelled, exc,
                   input_container, output_container, total_frames,
                   processed_frames, plan, attempt, out_streams,
                   video_output_stream, audio_output_stream, vdec, adec,
                   muxed, events, hist>>

run ==
    \/ run_init \/ run_open_input \/ run_get_stream \/ run_resolve
    \/ run_open_output \/ run_attempt \/ run_no_encoder \/ run_audio_setup
    \/ run_v_decode \/ run_v_check \/ run_v_encode \/ run_v_progress
    \/ run_a_begin \/ run_a_decode \/ run_a_check \/ run_a_encode
    \/ run_flush_check \/ run_flush_video \/ run_flush_audio
    \/ run_close_input \/ run_close_output
    \/ run_final \/ run_except \/ run_finally

Next ==
    \/ start_compression
    \/ cancel_compression
    \/ on_compression_finished
    \/ run

Spec == Init /\ [][Next]_vars

(* ----------------------- the life of the window ----------------------- *)
\* QThread.isRunning(): run() has been entered and has not returned
isRunning == pc \notin {"idle", "done"}

\* closeEvent (lines 1102-1120).  With a running worker the user is asked;
\* Yes calls cancel() and enters wait(3000), No ignores the event.  Without
\* one the settings are saved and the event is accepted.
closeEvent ==
    /\ window = "shown"
    /\ IF compression_worker # "none" /\ isRunning
       THEN \E reply \in {"Yes", "No"} :
              IF reply = "Yes"
              THEN /\ is_cancelled' = cancel(is_cancelled)
                   /\ hist' = IF hist.cancelAt = -1
                              THEN [hist EXCEPT !.cancelAt = vdec.submitted]
                              ELSE hist
                   /\ window' = "waiting"
                   /\ UNCHANGED saves
              ELSE UNCHANGED <<is_cancelled, hist, window, saves>>
       ELSE /\ saves' = saves + 1
            /\ window' = "closed"
            /\ UNCHANGED <<is_cancelled, hist>>
    /\ UNCHANGED <<call, compression_worker, start_btn, cancel_btn, sigq, runs,
                   message_box, envVars, settings, pc, exc, input_container,
                   output_container, total_frames, processed_frames, plan,
                   attempt, out_streams, video_output_stream,
                   audio_output_stream, vdec, adec, muxed, events>>

\* a wait without a deadline, returning only when run() has returned
close_wait_unbounded ==
    /\ window = "waiting"
    /\ ~isRunning
    /\ window' = "closed"
    /\ UNCHANGED <<call, compression_worker, start_btn, cancel_btn, sigq, runs,
                   saves, message_box, envVars, runVars>>

\* lines 1113-1114: wait(3000) returns, because run() returned or because
\* three seconds passed, and the event is accepted
close_wait_return ==
    /\ window = "waiting"
    /\ window' = "closed"
    /\ UNCHANGED <<call, compression_worker, start_btn, cancel_btn, sigq, runs,
                   saves, message_box, envVars, runVars>>

\* the settings the runs of the window's life are started with
GuiSettingsChoices ==
    {s \in SettingsChoices : s.codec = "vp9" /\ BitrateParses(s.bitrate)}

gui_start_compression == StartCompression(MaxStarts, GuiSettingsChoices)

\* the worker thread runs until the process exits with the closed window
run_while_open == window # "closed" /\ run

NextGui ==
    \/ gui_start_compression
    \/ cancel_compression
    \/ on_compression_finished
    \/ closeEvent
    \/ close_wait_return
    \/ run_while_open

GuiSpec == Init /\ [][NextGui]_vars

(* --------------------- the close of the window ------------------------ *)
\* closeEvent (lines 1102-1120) up to the question, for the specification
\* that follows the handler through its modal box.  With a running worker the
\* user is asked, and the worker goes on while the box is open; without one
\* the settings are saved and the event is accepted.
closeEvent_question ==
    /\ window = "shown"
    /\ IF compression_worker # "none" /\ isRunning
       THEN /\ window' = "asking"
            /\ UNCHANGED saves
       ELSE /\ saves' = saves + 1
            /\ window' = "closed"
    /\ UNCHANGED <<call, compression_worker, start_btn, cancel_btn, sigq, runs,
                   message_box, envVars, runVars>>

\* lines 1111-1117: the reply.  Yes calls cancel() and enters wait(3000), No
\* ignores the event.
close_reply ==
    /\ window = "asking"
    /\ \E reply \in {"Yes", "No"} :
         IF reply = "Yes"
         THEN /\ is_cancelled' = cancel(is_cancelled)
              /\ hist' = IF hist.cancelAt = -1
                         THEN [hist EXCEPT !.cancelAt = vdec.submitted]
                         ELSE hist
              /\ window' = "waiting"
         ELSE /\ window' = "shown"
              /\ UNCHANGED <<is_cancelled, hist>>
    /\ UNCHANGED <<call, compression_worker, start_btn, cancel_btn, sigq, runs,
                   saves, message_box, envVars, settings, pc, exc,
                   input_container, output_container, total_frames,
                   processed_frames, plan, attempt, out_streams,
                   video_output_stream, audio_output_stream, vdec, adec,
                   muxed, events>>

\* the runs during which the window is closed are started in CRF mode
CloseSettingsChoices == {s \in GuiSettingsChoices : s.quality_mode = "crf"}

close_start_compression == StartCompression(MaxRuns, CloseSettingsChoices)

NextClose ==
    \/ close_start_compression
    \/ cancel_compression
    \/ on_compression_finished
    \/ closeEvent_question
    \/ close_reply
    \/ close_wait_return
    \/ run_while_open

\* wait(3000) returns after three seconds at the latest
CloseFairSpec == Init /\ [][NextClose]_vars /\ WF_vars(close_wait_return)

(* ------------------- the encoder resolver on its own -------------------- *)
\* Two settings records that differ at most in gpu_acceleration, and the set
\* av.codec.codecs_available of the machine, restricted to the encoders the
\* codec family can name.
ResolverCalls ==
    UNION {[fn : {"plan"}, done : {FALSE},
            settings : {<<[DefaultSettings EXCEPT !.codec = c, !.gpu_acceleration = g[1]],
                          [DefaultSettings EXCEPT !.codec = c, !.gpu_acceleration = g[2]]>> :
                            g \in GpuChoices \X GpuChoices},
            available : SUBSET FamilyEncoders(c),
            ret : {<<>>}] : c \in Codecs}

InitResolver ==
    /\ InitProgram
    /\ call \in ResolverCalls

\* lines 197-207 applied to either settings record on the same machine
build_plan ==
    /\ call.fn = "plan"
    /\ ~call.done
    /\ call' = [call EXCEPT
                  !.done = TRUE,
                  !.ret = <<AttemptPlan(call.settings[1], call.available),
                            AttemptPlan(call.settings[2], call.available)>>]
    /\ UNCHANGED <<guiVars, envVars, runVars>>

NextResolver == build_plan

ResolverSpec == InitResolver /\ [][NextResolver]_vars

(* ----------------------- parse_bitrate on its own ----------------------- *)
\* one digit, an optional tenth and an optional suffix of either case, and
\* the texts of BitrateText
BitrateTexts ==
    {<<w>> \o f \o suf :
        w \in Digits,
        f \in {<<>>} \cup {<<".", t>> : t \in Digits},
        suf \in {<<>>, <<"K">>, <<"k">>, <<"M">>, <<"m">>}}
    \cup {BitrateText(b) : b \in {"1M", "500K", "2.5M", "128000", "128k", "abc"}}
    \cup {<<>>, <<"K">>, <<".", "M">>}

InitBitrate ==
    /\ InitProgram
    /\ call \in [fn : {"parse_bitrate"}, done : {FALSE},
                 bitrate_str : BitrateTexts, ret : {ValueError}]

apply_parse_bitrate ==
    /\ call.fn = "parse_bitrate"
    /\ ~call.done
    /\ call' = [call EXCEPT !.done = TRUE, !.ret = parse_bitrate(call.bitrate_str)]
    /\ UNCHANGED <<guiVars, envVars, runVars>>

NextBitrate == apply_parse_bitrate

BitrateSpec == InitBitrate /\ [][NextBitrate]_vars

(* ----------------- detect_gpu_capabilities on its own ------------------- *)
\* lines 58-64: the snapshot before the framework is probed
capabilities_preset ==
    [nvenc |-> FALSE, qsv |-> FALSE, vaapi |-> TRUE, videotoolbox |-> FALSE,
     supported_codecs |-> <<"h264">>]

capabilities ==
    [nvenc |-> FALSE, qsv |-> FALSE, vaapi |-> FALSE, videotoolbox |-> FALSE,
     supported_codecs |-> <<>>]

\* lines 71, 75, 79, 83: the encoder names that stand for each accelerator
nvenc_codecs == {"h264_nvenc", "hevc_nvenc", "av1_nvenc"}
qsv_codecs == {"h264_qsv", "hevc_qsv", "av1_qsv"}
vaapi_codecs == {"h264_vaapi", "hevc_vaapi"}
vt_codecs == {"h264_videotoolbox", "hevc_videotoolbox"}

\* line 89: f'lib{codec}'
LibName(codec) ==
    CASE codec = "h264" -> "libh264"
      [] codec = "h265" -> "libh265"
      [] codec = "vp9" -> "libvp9"
      [] codec = "av1" -> "libav1"

\* lines 87-91: the codecs of the list found under their own name or under
\* the name with lib in front, in the order of the list
supported(encoders) ==
    SelectSeq(<<"h264", "h265", "vp9", "av1">>,
              LAMBDA codec : codec \in encoders \/ LibName(codec) \in encoders)

\* detect_gpu_capabilities (lines 55-95).  probe is what reading
\* av.codec.codecs_available (line 68) gives: an exception, caught at line 93
\* with the snapshot as it is, or a set of names, in which the membership
\* tests of lines 72-90 cannot fail.
detect_gpu_capabilities(probe) ==
    IF probe.raises
    THEN capabilities
    ELSE [nvenc |-> nvenc_codecs \cap probe.encoders # {},
          qsv |-> qsv_codecs \cap probe.encoders # {},
          vaapi |-> vaapi_codecs \cap probe.encoders # {},
          videotoolbox |-> vt_codecs \cap probe.encoders # {},
          supported_codecs |-> supported(probe.encoders)]

\* names the framework may report, among them names the probe does not ask for
ProbeNames ==
    {"h264_nvenc", "av1_nvenc", "hevc_qsv", "h264_vaapi", "hevc_videotoolbox",
     "h264", "libh265", "vp9", "libx264", "libvpx-vp9"}

Probes ==
    {[raises |-> TRUE, encoders |-> {}]}
    \cup {[raises |-> FALSE, encoders |-> e] : e \in SUBSET ProbeNames}

InitGpu ==
    /\ InitProgram
    /\ call \in [fn : {"detect_gpu_capabilities"}, done : {FALSE}, probe : Probes,
                 ret : {Returned(0)}]

apply_detect_gpu_capabilities ==
    /\ call.fn = "detect_gpu_capabilities"
    /\ ~call.done
    /\ call' = [call EXCEPT !.done = TRUE,
                            !.ret = Returned(detect_gpu_capabilities(call.probe))]
    /\ UNCHANGED <<guiVars, envVars, runVars>>

NextGpu == apply_detect_gpu_capabilities

GpuSpec == InitGpu /\ [][NextGpu]_vars

(* ------------- the quality options of setup_video_encoder -------------- *)
\* Python's `part in name` for two strings
In(part, name) ==
    \E i \in 1..(Len(name) - Len(part) + 1) :
        SubSeq(name, i, i + Len(part) - 1) = part

\* an attribute or option that was assigned, and one that was not
Assigned(v) == [set |-> TRUE, value |-> v]
Unassigned == [set |-> FALSE, value |-> 0]

\* the user's preset for an NVENC encoder as well
nvenc_preset_of_user(s) == s.preset

\* line 335: the fixed preset of an NVENC encoder
nvenc_preset(s) == "medium"

\* lines 327-346 of setup_video_encoder: codec_context.options as a set of
\* key-value pairs, codec_context.bit_rate and thread_count, and whether
\* parse_bitrate was called; a ValueError of parse_bitrate leaves the
\* function
quality_options(encoder_name, s) ==
    LET crf == ToString(s.crf_value)
        thread_count == IF s.threads > 0 THEN Assigned(s.threads) ELSE Unassigned
        set(options) ==
            Returned([options |-> options, bit_rate |-> Unassigned,
                      parsed |-> FALSE, thread_count |-> thread_count])
    IN  IF s.quality_mode = "crf"
        THEN IF In("nvenc", encoder_name)
             THEN set({<<IF In("h264_nvenc", encoder_name) THEN "crf" ELSE "cq", crf>>,
                       <<"preset", nvenc_preset(s)>>})
             ELSE IF In("qsv", encoder_name)
             THEN set({<<"global_quality", crf>>})
             ELSE set({<<"crf", crf>>, <<"preset", s.preset>>})
        ELSE LET bit_rate == parse_bitrate(BitrateText(s.bitrate))
             IN  IF bit_rate.ok
                 THEN Returned([options |-> {}, bit_rate |-> Assigned(bit_rate.value),
                                parsed |-> TRUE, thread_count |-> thread_count])
                 ELSE ValueError

\* every encoder a plan can name
PlanEncoders == UNION {FamilyEncoders(c) : c \in Codecs}

\* the items of the preset combo (lines 724-726)
Presets == {"ultrafast", "fast", "medium", "slow", "veryslow"}

\* the ends and the default of the CRF spin box (lines 643-644)
CrfValues == {0, 23, 51}

QualityCalls ==
    [fn : {"quality_options"}, done : {FALSE}, encoder_name : PlanEncoders,
     settings : {[DefaultSettings EXCEPT !.quality_mode = q, !.crf_value = c,
                                         !.preset = p, !.bitrate = b, !.threads = t] :
                    q \in {"crf", "bitrate"}, c \in CrfValues, p \in Presets,
                    b \in {"2.5M", "abc"}, t \in {0, 4}},
     ret : {ValueError}]

InitQuality ==
    /\ InitProgram
    /\ call \in QualityCalls

apply_quality_options ==
    /\ call.fn = "quality_options"
    /\ ~call.done
    /\ call' = [call EXCEPT !.done = TRUE,
                            !.ret = quality_options(call.encoder_name, call.settings)]
    /\ UNCHANGED <<guiVars, envVars, runVars>>

NextQuality == apply_quality_options

QualitySpec == InitQuality /\ [][NextQuality]_vars

(* -------------------- output dimensions on their own -------------------- *)
\* the items of the resolution combo in lower case, and a value that is none
\* of them
Resolutions == {"original", "1080p", "720p", "480p", "4k"}

\* width and height of the input's video stream
InputDimensions == {320, 854, 1280, 1920, 3840} \X {240, 480, 720, 1080, 2160}

InitDimensions ==
    /\ InitProgram
    /\ call \in [fn : {"dimensions"}, done : {FALSE}, resolution : Resolutions,
                 input : InputDimensions,
                 ret : {[stream |-> <<0, 0>>, frame |-> <<0, 0>>, resized |-> FALSE]}]

\* the stream is configured, then one decoded frame passes lines 237-239
configure_dimensions ==
    /\ call.fn = "dimensions"
    /\ ~call.done
    /\ call' = [call EXCEPT
                  !.done = TRUE,
                  !.ret = [stream |-> ConfiguredDimensions(call.resolution, call.input),
                           frame |-> FrameToEncoder(call.resolution, call.input),
                           resized |-> ResizeNeeded(call.resolution)]]
    /\ UNCHANGED <<guiVars, envVars, runVars>>

NextDimensions == configure_dimensions

DimensionSpec == InitDimensions /\ [][NextDimensions]_vars

(* ------------------------------- typing -------------------------------- *)
TypeOK ==
    /\ compression_worker \in {"none", "worker"}
    /\ start_btn \in BOOLEAN /\ cancel_btn \in BOOLEAN
    /\ runs \in 0..(MaxRuns + MaxStarts) /\ saves \in 0..(MaxRuns + MaxStarts + 1)
    /\ window \in {"shown", "asking", "waiting", "closed"}
    /\ is_cancelled \in BOOLEAN
    /\ input_container \in {"none", "open", "closed"}
    /\ output_container \in {"none", "open", "closed"}
    /\ video_output_stream \in 0..Len(out_streams)
    /\ audio_output_stream \in 0..Len(out_streams)
    /\ vdec.submitted <= vdec.decoded /\ vdec.decoded <= MaxVFrames
    /\ adec.submitted <= adec.decoded /\ adec.decoded <= MaxAFrames
    /\ vdec.buffered \in 0..vdec.submitted
    /\ Len(sigq) <= 1
    /\ message_box.icon \in {"none", "warning", "information", "critical"}

(* ======================== properties of a run ========================== *)
RunEnded == pc = "done"

FinishedEvents == SelectSeq(events, IsFinished)
ProgressEvents == SelectSeq(events, IsProgress)

\* the terminal outcome the observer is told, "none" before it is emitted
Outcome ==
    IF FinishedEvents = <<>> THEN "none"
    ELSE IF FinishedEvents[1].success THEN "success"
    ELSE IF FinishedEvents[1].msg = MsgCancelled THEN "cancelled"
    ELSE "failed"

FlushPackets == {i \in 1..Len(muxed) : muxed[i].tag \in {"fv", "fa"}}
AudioPackets == {i \in 1..Len(muxed) : muxed[i].tag \in {"a", "fa"}}

\* C1: when a run has ended, on whatever path, every container it opened
\* has been closed.
C1_OpenedContainersClosed ==
    RunEnded =>
        /\ hist.inOpened => input_container = "closed"
        /\ hist.outOpened => output_container = "closed"

\* C2: a run never emits a second finished signal, and a run that has ended
\* has emitted exactly one, on the success, cancelled and failed paths alike.
C2_ExactlyOneFinished ==
    /\ Len(FinishedEvents) <= 1
    /\ pc \in {"finally", "done"} => Len(FinishedEvents) = 1
    /\ Len(FinishedEvents) = 1 => pc \in {"finally", "done"}

\* a run ended through the exception handler after video frames were encoded
C2_Witness ==
    /\ RunEnded
    /\ Outcome = "failed"
    /\ vdec.submitted = MaxVFrames
    /\ Len(FinishedEvents) = 1

\* C3: the progress values of a run are non-decreasing and lie in 0..100, and
\* once success is reported the last progress value is 100.
C3_ProgressMonotone ==
    LET P == ProgressEvents
    IN  /\ \A i \in 1..Len(P) : P[i].value \in 0..100
        /\ \A i \in 1..Len(P) : \A j \in i..Len(P) : P[i].value <= P[j].value
        /\ Outcome = "success" => (P # <<>> /\ P[Len(P)].value = 100)

\* a successful run whose progress rose through values below 100
C3_Witness ==
    /\ RunEnded
    /\ Outcome = "success"
    /\ Len(ProgressEvents) = MaxVFrames + 1
    /\ ProgressEvents[1].value > 0
    /\ ProgressEvents[1].value < ProgressEvents[2].value
    /\ ProgressEvents[2].value < 100

\* C4: a run that reports the outcome cancelled has drained neither encoder
\* and has muxed no packet of the flush phase.
C4_CancelledNeverFlushed ==
    Outcome = "cancelled" => (hist.flushed = {} /\ FlushPackets = {})

\* cancel() was called while N = hist.cancelAt video frames had been submitted
\* and the input held a further frame (it was decoded), and no call into the
\* framework raised
CancelledMidVideo ==
    /\ hist.cancelAt >= 0
    /\ vdec.decoded > hist.cancelAt
    /\ ~hist.fwFail

\* C5: a run cancelled after N submitted video frames, N below the number of
\* frames of the input, with no framework failure, ends with the outcome
\* cancelled, has submitted at most N+1 video frames, and submitted none
\* after a flag check saw the flag set.
C5_CancelStopsEncoding ==
    (RunEnded /\ CancelledMidVideo) =>
        /\ Outcome = "cancelled"
        /\ vdec.submitted <= hist.cancelAt + 1
        /\ hist.afterObserved = 0

\* every candidate of the attempt plan was tried and none gave a stream
AllCandidatesFailed ==
    /\ pc \notin {"idle", "start", "open_input", "get_stream", "resolve", "open_output"}
    /\ attempt > Len(plan)
    /\ video_output_stream = 0

VideoStreamsLeft == {i \in 1..Len(out_streams) : out_streams[i].kind = "video"}

\* C6: when every candidate failed, the run ends failed with the message that
\* no working encoder was found, no frame was decoded or encoded, and the
\* output container holds no video stream.
C6_FallbackExhaustion ==
    (RunEnded /\ AllCandidatesFailed) =>
        /\ Outcome = "failed"
        /\ Contains(FinishedEvents[1].msg, MsgNoEncoder)
        /\ vdec.decoded = 0 /\ vdec.submitted = 0
        /\ adec.decoded = 0 /\ adec.submitted = 0
        /\ VideoStreamsLeft = {}

\* the status events of the negotiation, in order
IsNegotiation(e) ==
    /\ e.sig = "status"
    /\ Len(e.msg) >= 4
    /\ \/ e.msg[1] = "Attempting" /\ e.msg[2] = "encoder"
       \/ e.msg[1] = "Using" /\ e.msg[2] = "encoder"
       \/ e.msg[1] = "Encoder" /\ e.msg[3] = "failed"

NegotiationEvents == SelectSeq(events, IsNegotiation)

IsAttempting(e, enc) == e.msg = <<"Attempting", "encoder", ":", enc>>
IsUsing(e, enc)      == e.msg = <<"Using", "encoder", ":", enc>>
IsFailure(e, enc)    == Len(e.msg) >= 4 /\ SubSeq(e.msg, 1, 4) = <<"Encoder", enc, "failed", ":">>

\* C7: the candidates are attempted in plan order, primary first and then the
\* fallback list; a failed attempt is followed by its failure status and, when
\* a candidate remains, by the attempt of the next one; the first attempt that
\* does not raise is the last one and gives the stream in use.
C7_AttemptsInPlanOrder ==
    LET N == NegotiationEvents
        A == hist.attempts
    IN  /\ Len(A) <= Len(plan)
        /\ \A i \in 1..Len(A) : A[i] = plan[i]
        /\ Len(plan) > 1 =>
              plan = <<plan[1]>> \o get_fallback_encoders(settings.codec)
        /\ Len(N) = 2 * Len(A)
        /\ \A i \in 1..Len(A) :
              /\ IsAttempting(N[2 * i - 1], plan[i])
              /\ IF i < Len(A) \/ video_output_stream = 0
                 THEN IsFailure(N[2 * i], plan[i])
                 ELSE IsUsing(N[2 * i], plan[i])
        /\ video_output_stream # 0 =>
              out_streams[video_output_stream].codec = A[Len(A)]
        /\ (pc \notin {"negotiate", "except", "finally", "done"} /\ plan # <<>> /\ attempt > 0)
              => video_output_stream # 0

\* the second fallback won after the primary and the first fallback failed
C7_Witness ==
    /\ Len(hist.attempts) = 3
    /\ video_output_stream # 0
    /\ hist.attempts[3] # hist.attempts[1]
    /\ pc = "v_decode"

\* C8: when the input path does not exist as the run starts, the run ends
\* failed with a message containing "not found", and opens no input
\* container, opens no output container and creates no output file.
C8_MissingInput ==
    media.exists = 0 =>
        /\ ~hist.inOpened /\ input_container = "none"
        /\ ~hist.outOpened /\ output_container = "none"
        /\ ~hist.outCreated
        /\ RunEnded =>
              /\ Outcome = "failed"
              /\ Contains(FinishedEvents[1].msg, <<"not", "found">>)

C8_Witness == RunEnded /\ media.exists = 0 /\ Outcome = "failed"

\* C9: when the opened input has no video stream, the run ends failed with
\* the message that no video stream was found, no encoder has been resolved
\* and no output container opened.
C9_NoVideoStream ==
    media.video = 0 =>
        /\ plan = <<>>
        /\ ~hist.outOpened
        /\ RunEnded =>
              /\ Outcome = "failed"
              /\ Contains(FinishedEvents[1].msg, MsgNoVideoStream)

\* C10: with a video stream and no audio stream, audio negotiation is never
\* entered, no audio frame is decoded, encoded or flushed, no audio packet is
\* muxed, and, with no framework failure and no cancellation, the run ends
\* with success.
C10_VideoOnly ==
    (media.video = 1 /\ media.audio = 0) =>
        /\ ~hist.audioNeg
        /\ audio_output_stream = 0
        /\ adec = InitDec
        /\ "audio" \notin hist.flushed
        /\ AudioPackets = {}
        /\ (RunEnded /\ ~hist.fwFail /\ ~is_cancelled) => Outcome = "success"

\* C11: every exception raised by a step of run() lands in the except block
\* of run(), which turns it into the one terminal signal finished(False,
\* "Compression failed: " + cause text); no exception is pending when run()
\* has returned.
C11_ExceptionsCaught ==
    [][/\ exc' # NoExc => (pc' = "except" /\ SelectSeq(events', IsFinished) = <<>>)
       /\ (pc = "except" /\ pc' # "except") =>
             /\ exc # NoExc
             /\ pc' = "finally"
             /\ exc' = NoExc
             /\ SelectSeq(events', IsFinished) =
                    <<Finished(FALSE, <<"Compression", "failed", ":">> \o exc.msg)>>
             /\ sigq' = Append(sigq, Finished(FALSE,
                                  <<"Compression", "failed", ":">> \o exc.msg))
       /\ pc' = "done" => exc' = NoExc
      ]_vars

\* a run whose mux failed after a frame was encoded has ended with the
\* failure message carrying the framework's text
C11_Witness ==
    /\ RunEnded
    /\ hist.fwFail
    /\ vdec.submitted > 0
    /\ FinishedEvents =
          <<Finished(FALSE, <<"Compression", "failed", ":">> \o MsgAvError)>>

\* the window has handled the terminal signal of a cancelled run
CancelledPresented ==
    /\ message_box # NoBox
    /\ message_box.text = MsgCancelled

\* C12: a cancelled run is reported apart from failure: when the window has
\* handled the terminal signal of a cancelled run, it has presented it
\* neither with the error box nor with the failure mark that it uses for a
\* failed run.
C12_CancelledNotAnError ==
    CancelledPresented =>
        /\ message_box.icon # "critical"
        /\ message_box.title # "Error"
        /\ message_box.mark # "cross-mark"

\* position of a phase in the order main video, main audio, flushed video,
\* flushed audio
PhaseRank(tag) ==
    CASE tag = "v" -> 1 [] tag = "a" -> 2 [] tag = "fv" -> 3 [] tag = "fa" -> 4

IsVideoPacket(p) == p.tag \in {"v", "fv"}
IsAudioPacket(p) == p.tag \in {"a", "fa"}

\* the packets of s carry the numbers 1, 2, ... in this order
InEncoderOrder(s) == \A i \in 1..Len(s) : s[i].n = i

\* C13: the muxed packets are ordered main video, main audio, flushed video,
\* flushed audio; the packets of each stream are muxed in the order its
\* encoder returned them; no audio packet is muxed before the video loop
\* has ended.
C13_MuxOrder ==
    /\ \A i \in 1..(Len(muxed) - 1) :
          PhaseRank(muxed[i].tag) <= PhaseRank(muxed[i + 1].tag)
    /\ InEncoderOrder(SelectSeq(muxed, IsVideoPacket))
    /\ InEncoderOrder(SelectSeq(muxed, IsAudioPacket))
    /\ AudioPackets # {} =>
          /\ hist.vEnd
          /\ pc \notin {"v_decode", "v_check", "v_encode", "v_progress"}

\* a run has muxed two video packets from one encode call, then an audio
\* packet, then flushed
C13_Witness ==
    /\ RunEnded
    /\ Len(muxed) >= 3
    /\ muxed[1].tag = "v" /\ muxed[2].tag = "v"
    /\ muxed[3].tag = "a"
    /\ "video" \in hist.flushed

\* the software encoder each family falls back to
HardcodedSoftware(codec) ==
    CASE codec = "h264" -> "libx264" [] codec = "h265" -> "libx265"
      [] codec = "vp9" -> "libvpx-vp9" [] codec = "av1" -> "libsvtav1"

PlanBuilt == call.fn = "plan" /\ call.done

\* C14: for every codec family and every set of available encoders the
\* attempt plan is non-empty, and its primary candidate is the first entry
\* of the family's priority list that is available, or the family's
\* hardcoded software encoder when no entry is available; the resolver
\* returns a plan for every input and changes nothing else.
C14_PrimaryCandidate ==
    PlanBuilt =>
        LET c == call.settings[1].codec
            S == call.available
            prio == encoder_priority(c)
            P == call.ret[1]
        IN  /\ Len(P) >= 1
            /\ \/ \E i \in 1..Len(prio) :
                     /\ P[1] = prio[i]
                     /\ prio[i] \in S
                     /\ \A j \in 1..(i - 1) : prio[j] \notin S
               \/ /\ \A i \in 1..Len(prio) : prio[i] \notin S
                  /\ P[1] = HardcodedSoftware(c)
            /\ prio[1] = HardcodedSoftware(c)
            /\ InitProgram

\* the software encoder is missing and a hardware encoder further down the
\* list is the primary candidate
C14_Witness ==
    /\ PlanBuilt
    /\ call.settings[1].codec = "av1"
    /\ call.available = {"av1_vaapi", "av1_nvenc", "libaom-av1"}
    /\ call.ret[1][1] = "av1_vaapi"

MalformedBitrate ==
    /\ compression_worker = "worker"
    /\ settings.quality_mode = "bitrate"
    /\ ~BitrateParses(settings.bitrate)

\* C16: malformed or missing settings are detected before any input or
\* output resource is opened, are surfaced as a validation error and are
\* never retried: a started run has non-empty paths and an input that
\* existed, and a run whose bitrate cannot be parsed opens no container,
\* makes no second encoder attempt and ends failed with the parse error.
C16_SettingsRejectedEarly ==
    /\ compression_worker = "worker" =>
          /\ settings.input_file # "" /\ settings.output_file # ""
          /\ hist.validated.exists
    /\ MalformedBitrate =>
          /\ ~hist.inOpened /\ ~hist.outOpened
          /\ Len(hist.attempts) <= 1
          /\ RunEnded =>
                /\ Outcome = "failed"
                /\ Contains(FinishedEvents[1].msg, MsgBadBitrate)

BitrateParsed == call.fn = "parse_bitrate" /\ call.done

\* the value of a text that is a number with an optional K or M suffix:
\* <<n, d, factor>> for n / 10^d times factor
SuffixedNumber(text) ==
    LET last == text[Len(text)]
        body == SubSeq(text, 1, Len(text) - 1)
    IN  IF last \in {"K", "k"} THEN <<Decimal(body)[1], Decimal(body)[2], 1000>>
        ELSE IF last \in {"M", "m"} THEN <<Decimal(body)[1], Decimal(body)[2], 1000000>>
        ELSE <<Decimal(text)[1], 0, 1>>

WellFormedBitrate(text) ==
    /\ text # <<>>
    /\ IF text[Len(text)] \in {"K", "k", "M", "m"}
       THEN FloatLiteral(SubSeq(text, 1, Len(text) - 1))
       ELSE IntLiteral(text)

\* C17: parse_bitrate returns the numeric part times 1000 for a K suffix of
\* either case, times 1,000,000 for an M suffix, and the integer itself for
\* a text without suffix; 500K is 500000, 1M is 1000000, 2.5M is 2500000 and
\* 128000 is 128000.
C17_ParseBitrate ==
    (BitrateParsed /\ WellFormedBitrate(call.bitrate_str)) =>
        LET v == SuffixedNumber(call.bitrate_str)
        IN  /\ call.ret.ok
            /\ call.ret.value * (10 ^ v[2]) = v[1] * v[3]
            /\ call.bitrate_str = BitrateText("500K") => call.ret.value = 500000
            /\ call.bitrate_str = BitrateText("1M") => call.ret.value = 1000000
            /\ call.bitrate_str = BitrateText("2.5M") => call.ret.value = 2500000
            /\ call.bitrate_str = BitrateText("128000") => call.ret.value = 128000

DimensionsConfigured == call.fn = "dimensions" /\ call.done

\* C18: the output stream is configured to 1920x1080 for 1080p, 1280x720
\* for 720p and 854x480 for 480p whatever the input dimensions; for
\* original it has the width and height of the input stream, and the frame
\* reaches the encoder unresized.
C18_OutputDimensions ==
    DimensionsConfigured =>
        /\ call.resolution = "1080p" => call.ret.stream = <<1920, 1080>>
        /\ call.resolution = "720p" => call.ret.stream = <<1280, 720>>
        /\ call.resolution = "480p" => call.ret.stream = <<854, 480>>
        /\ call.resolution = "original" =>
              /\ call.ret.stream = call.input
              /\ ~call.ret.resized
              /\ call.ret.frame = call.input

\* a 3840x2160 input kept at its size
C18_Witness ==
    /\ DimensionsConfigured
    /\ call.resolution = "original"
    /\ call.input = <<3840, 2160>>
    /\ call.ret.stream = <<3840, 2160>>
    /\ ~call.ret.resized

(* ==================== properties of the window's life ================== *)
\* the worker's terminal signal has been emitted and handled by the window
TerminalHandled == Len(FinishedEvents) = 1 /\ sigq = <<>>

\* a worker was started and its terminal signal is not yet handled
RunPending == compression_worker = "worker" /\ ~TerminalHandled

\* C19: a worker is started only when no earlier worker exists or the
\* earlier worker's terminal signal has been handled; while a run is pending
\* the start button is disabled, and the cancel button is enabled only
\* while a run is pending.
C19_OneRunAtATime ==
    [][/\ runs' = runs + 1 => (compression_worker = "none" \/ TerminalHandled)
       /\ RunPending' => ~start_btn'
       /\ cancel_btn' => RunPending'
      ]_vars

\* the second worker of the window is running, started after the first
\* one's terminal signal was handled
C19_Witness ==
    /\ runs = 2
    /\ pc = "v_encode"
    /\ ~start_btn /\ cancel_btn
    /\ window = "shown"

\* C20: the settings a worker is started with have non-empty paths and an
\* input that existed when validate_settings ran, and no handler of the
\* window changes the settings record while the run is pending.
C20_SettingsFrozen ==
    [][/\ runs' = runs + 1 =>
             /\ settings'.input_file # "" /\ settings'.input_file # " "
             /\ settings'.output_file # ""
             /\ hist'.validated.exists
             /\ hist'.validated.input_file_edit = settings'.input_file
             /\ hist'.validated.output_file_edit = settings'.output_file
       /\ RunPending => settings' = settings
      ]_vars

\* after a first run that succeeded, a second run was started in bitrate
\* mode, has been cancelled from the window and is still pending
C20_Witness ==
    /\ runs = 2
    /\ settings.quality_mode = "bitrate"
    /\ is_cancelled
    /\ pc = "v_check"
    /\ saves = 1

\* what a run works on, the flag and the history apart
RunState ==
    <<settings, pc, exc, input_container, output_container, total_frames,
      processed_frames, plan, attempt, out_streams, video_output_stream,
      audio_output_stream, vdec, adec, muxed, events, fs, media>>

\* a step of the worker thread inside run()
WorkerStep == runs' = runs /\ <<pc, attempt>>' # <<pc, attempt>>

\* a step of the window's thread that starts no run
WindowStep == runs' = runs /\ <<pc, attempt>>' = <<pc, attempt>>

\* C21: within a run the flag, once set, stays set however often cancel is
\* requested; no step of the worker writes it; and a handler of the window
\* that runs while the run is pending writes nothing of the run but the flag.
C21_FlagOnlySharedState ==
    [][/\ (runs' = runs /\ is_cancelled) => is_cancelled'
       /\ WorkerStep => is_cancelled' = is_cancelled
       /\ (WindowStep /\ RunPending) => RunState' = RunState
      ]_vars

\* cancel was requested, through the button or the close of the window, and
\* the worker, which had passed its check, is encoding with the flag set
C21_Witness ==
    /\ is_cancelled
    /\ window = "waiting"
    /\ pc = "v_encode"
    /\ hist.cancelAt >= 0

\* the user confirmed the close of the window
CloseConfirmed == window = "asking" /\ window' = "waiting"

\* the user declined it
CloseDeclined == window = "asking" /\ window' = "shown"

\* C22: a confirmed close during a run requests cancellation and then waits;
\* the wait ends with the close accepted and has no other way out, whether
\* the worker has stopped or not; a declined close leaves window, flag and
\* run as they were.
C22_CloseDuringRun ==
    /\ [][/\ CloseConfirmed => (is_cancelled' /\ RunState' = RunState)
          /\ CloseDeclined => (is_cancelled' = is_cancelled /\ RunState' = RunState)
          /\ (window = "waiting" /\ window' # window) => window' = "closed"
          /\ (window' = "closed" /\ window # window')
                => (window = "waiting" \/ ~isRunning)
         ]_vars
    /\ (window = "waiting" ~> window = "closed")

\* the close was accepted after the wait although the worker, cancelled, had
\* not stopped
C22_Witness ==
    /\ window = "closed"
    /\ is_cancelled
    /\ isRunning
    /\ pc = "v_encode"

\* on_compression_finished handles a terminal signal that reports success
SuccessHandled ==
    /\ sigq # <<>>
    /\ Head(sigq).success
    /\ sigq' = Tail(sigq)

\* closeEvent accepts the close of a window that has no running worker
IdleClose ==
    /\ window = "shown"
    /\ window' = "closed"
    /\ ~(compression_worker # "none" /\ isRunning)

\* C23 as stated: the settings file is written only by the handling of the
\* terminal signal of a run that ended in success.
C23_WrittenOnlyOnSuccess ==
    [][saves' # saves => (saves' = saves + 1 /\ SuccessHandled)]_vars

\* C23 amended: the settings file is written by the handling of the terminal
\* signal of a successful run and by the close of a window with no running
\* worker, and by nothing else; the terminal signal of a failed or cancelled
\* run writes nothing.
C23_WrittenOnSuccessOrIdleClose ==
    [][/\ saves' # saves => (saves' = saves + 1 /\ (SuccessHandled \/ IdleClose))
       /\ (sigq # <<>> /\ ~Head(sigq).success /\ sigq' = Tail(sigq))
            => saves' = saves
      ]_vars

\* a cancelled run and a successful one were both handled, with one write
C23_Witness ==
    /\ runs = 2
    /\ sigq = <<>>
    /\ saves = 1
    /\ window = "shown"
    /\ Outcome = "cancelled"
    /\ message_box.icon = "critical"

\* C24: after a run that ended cancelled the output file does not exist.
C24_CancelledOutputDeleted ==
    (RunEnded /\ Outcome = "cancelled") => ~fs.output

GpuDetected == call.fn = "detect_gpu_capabilities" /\ call.done

\* C25: detect_gpu_capabilities returns and never raises; when the probe of
\* the framework failed, every accelerator flag of the snapshot is false and
\* its list of supported codecs is empty.
C25_DetectNeverRaises ==
    GpuDetected =>
        /\ call.ret.ok
        /\ call.probe.raises =>
              /\ ~call.ret.value.nvenc
              /\ ~call.ret.value.qsv
              /\ ~call.ret.value.vaapi
              /\ ~call.ret.value.videotoolbox
              /\ call.ret.value.supported_codecs = <<>>

\* the probe failed and the snapshot was returned
C25_Witness ==
    /\ GpuDetected
    /\ call.probe.raises
    /\ call.ret.ok
    /\ call.ret.value = capabilities

\* C26 as stated: once the flag is set no video frame and no audio frame is
\* decoded or encoded.
C26_NoFrameOnceFlagSet ==
    [][(is_cancelled /\ runs' = runs) => (vdec' = vdec /\ adec' = adec)]_vars

\* C26 amended: the check is the first statement of the loop body and comes
\* after the decoding of the iteration's frame.  A check that reads the flag
\* set ends its loop with the frame not encoded; a frame decoded with the
\* flag set goes to that check; a frame encoded with the flag set is the one
\* whose check came before the request; once a check has seen the flag, no
\* video frame is decoded or encoded and no audio frame is encoded, and the
\* audio loop decodes its first frame at most.
C26_CheckAfterDecode ==
    [][runs' = runs =>
        /\ (pc = "v_check" /\ is_cancelled /\ pc' # pc)
              => (pc' = "a_begin" /\ vdec' = vdec /\ muxed' = muxed)
        /\ (pc = "a_check" /\ is_cancelled /\ pc' # pc)
              => (pc' = "flush_check" /\ adec' = adec /\ muxed' = muxed)
        /\ (is_cancelled /\ vdec'.decoded # vdec.decoded) => pc' = "v_check"
        /\ (is_cancelled /\ adec'.decoded # adec.decoded) => pc' = "a_check"
        /\ (is_cancelled /\ vdec'.submitted # vdec.submitted)
              => (~hist.observed /\ hist.cancelAt = vdec.submitted)
        /\ (is_cancelled /\ adec'.submitted # adec.submitted) => ~hist.observed
        /\ hist.observed
              => /\ vdec' = vdec
                 /\ adec'.submitted = adec.submitted
                 /\ adec' # adec => (adec = InitDec /\ adec'.decoded = 1)
      ]_vars

\* the video loop decoded a frame, saw the flag and left it unencoded; the
\* audio loop then decoded one frame and encoded none
C26_Witness ==
    /\ RunEnded
    /\ Outcome = "cancelled"
    /\ hist.observed
    /\ vdec.decoded > vdec.submitted
    /\ adec.decoded = 1
    /\ adec.submitted = 0

\* setup_audio_encoder was called and gave no stream
AudioNegotiationFailed == hist.audioNeg /\ audio_output_stream = 0

\* what holds of the audio streams in every state
AudioStreamsAsNegotiated ==
    /\ \A i \in 1..Len(out_streams) :
          out_streams[i].kind = "audio" =>
              /\ out_streams[i].codec = settings.audio_codec
              /\ audio_output_stream = i
              /\ hist.audioNeg
    /\ hist.audioNeg => media.audio = 1
    /\ AudioNegotiationFailed =>
          /\ \A i \in 1..Len(out_streams) : out_streams[i].kind # "audio"
          /\ pc \in {"except", "finally", "done"}
          /\ vdec = InitDec
          /\ adec = InitDec
          /\ RunEnded => Outcome = "failed"

\* C27: every audio stream of the output is the one the run holds, is of the
\* requested audio codec and exists only for an input with an audio stream;
\* within a run the negotiation takes place once, at line 225, and after it
\* the audio stream is never set again; when it failed there is no audio
\* stream of any codec, no stream is added afterwards, the run goes to its
\* error exit and ends failed, and no video or audio frame is decoded or
\* encoded.
C27_AudioNegotiatedOnce ==
    /\ []AudioStreamsAsNegotiated
    /\ [][runs' = runs =>
            /\ hist'.audioNeg # hist.audioNeg
                  => (pc = "audio_setup" /\ hist'.audioNeg)
            /\ hist.audioNeg => audio_output_stream' = audio_output_stream
            /\ AudioNegotiationFailed
                  => (out_streams' = out_streams /\ vdec' = vdec /\ adec' = adec)
         ]_vars

\* the audio negotiation failed and the run ended failed
C27_Witness ==
    /\ RunEnded
    /\ AudioNegotiationFailed
    /\ Outcome = "failed"
    /\ video_output_stream # 0

\* the attempt loop has ended, with a stream or without
NegotiationOver == video_output_stream # 0 \/ AllCandidatesFailed

\* calls of av.open(output_file, mode='w') in the run so far
OutputContextsOpened == IF hist.outOpened THEN 1 ELSE 0

\* C28: every negotiation attempt opened an output context of its own, so
\* there are as many contexts as attempts, and the context of the winning
\* attempt holds the winning video stream and no other.
C28_ContextPerAttempt ==
    NegotiationOver =>
        /\ OutputContextsOpened = Len(hist.attempts)
        /\ video_output_stream # 0 => VideoStreamsLeft = {video_output_stream}

QualitySet == call.fn = "quality_options" /\ call.done

\* the value of an option, "" when it is not set
Option(key) ==
    IF \E kv \in call.ret.value.options : kv[1] = key
    THEN (CHOOSE kv \in call.ret.value.options : kv[1] = key)[2]
    ELSE ""

OptionKeys == {kv[1] : kv \in call.ret.value.options}

\* C29: in CRF mode an NVENC encoder gets the options crf (h264_nvenc) or cq
\* (the other NVENC encoders) and the preset medium, a QuickSync encoder gets
\* global_quality alone, every other encoder gets crf and the user's preset,
\* each quality value being the CRF value, and no bit rate is parsed or set;
\* in BITRATE mode the parsed bit rate is set and no option at all.
C29_QualityParameters ==
    QualitySet =>
        LET s == call.settings
            enc == call.encoder_name
        IN  IF s.quality_mode = "crf"
            THEN /\ call.ret.ok
                 /\ ~call.ret.value.parsed
                 /\ ~call.ret.value.bit_rate.set
                 /\ IF enc \in nvenc_codecs
                    THEN /\ OptionKeys = {IF enc = "h264_nvenc" THEN "crf" ELSE "cq", "preset"}
                         /\ Option(IF enc = "h264_nvenc" THEN "crf" ELSE "cq")
                              = ToString(s.crf_value)
                         /\ Option("preset") = "medium"
                    ELSE IF enc \in qsv_codecs
                    THEN /\ OptionKeys = {"global_quality"}
                         /\ Option("global_quality") = ToString(s.crf_value)
                    ELSE /\ OptionKeys = {"crf", "preset"}
                         /\ Option("crf") = ToString(s.crf_value)
                         /\ Option("preset") = s.preset
            ELSE call.ret.ok =>
                    /\ OptionKeys = {}
                    /\ call.ret.value.bit_rate
                         = Assigned(parse_bitrate(BitrateText(s.bitrate)).value)

\* an NVENC encoder other than h264_nvenc was configured in CRF mode for a
\* user who asked for another preset
C29_Witness ==
    /\ QualitySet
    /\ call.settings.quality_mode = "crf"
    /\ call.encoder_name = "hevc_nvenc"
    /\ call.settings.preset = "veryslow"
    /\ Option("cq") = "51"
    /\ Option("preset") = "medium"

\* the status line 250 emits for the i-th processed frame
ProcessedStatus(i) ==
    Status(<<"Processed", ToString(i), "/", ToString(total_frames), "frames">>)

\* C30: after each of the video frames processed so far a progress value was
\* emitted, the i-th being min(100, floor(i / total * 100)), and a status
\* line was emitted for every count that is a multiple of 30.
C30_ProgressAfterEveryFrame ==
    /\ Len(ProgressEvents) >= processed_frames
    /\ \A i \in 1..processed_frames :
          /\ total_frames # 0
          /\ ProgressEvents[i].value = Min(100, (i * 100) \div total_frames)
          /\ i % StatusEvery = 0 => ProcessedStatus(i) \in Range(events)

IsStatus(e) == e.sig = "status"

\* the place of a status text in the order in which run() can emit them
\* (lines 168, 194, 198, 209-216, 250, 254, 263, 281 and 287)
StatusRank(m) ==
    CASE m[1] = "Initializing" -> 1
      [] m[1] = "Processing" /\ m[2] # "audio" -> 2
      [] m[1] = "Trying" -> 3
      [] m[1] \in {"Attempting", "Using", "Encoder"} -> 4
      [] m[1] = "Processed" -> 5
      [] m[1] = "Processing" /\ m[2] = "audio" -> 6
      [] m[1] = "Finalizing" -> 7
      [] OTHER -> 8

StatusEvents == SelectSeq(events, IsStatus)

\* the status events follow the order of the pipeline's statements
StatusChronological ==
    \A i, j \in 1..Len(StatusEvents) :
        i < j => StatusRank(StatusEvents[i].msg) <= StatusRank(StatusEvents[j].msg)

\* the run went through the closing of both containers
ClosedReached == RunEnded /\ Outcome \in {"success", "cancelled"}

\* phases the run entered once the video encoder was negotiated: audio
\* negotiation, video encoding, audio encoding, flushing, closed
PhasesSinceNegotiation ==
    (IF hist.audioNeg THEN 1 ELSE 0) + 1
    + (IF audio_output_stream # 0 THEN 1 ELSE 0)
    + (IF hist.flushed # {} THEN 1 ELSE 0) + 1

\* the status events from the one that ended the video negotiation onwards
StatusSinceNegotiation ==
    LET using == {i \in 1..Len(events) :
                     IsStatus(events[i]) /\ events[i].msg[1] = "Using"}
    IN  {j \in 1..Len(events) :
            IsStatus(events[j]) /\ \E i \in using : i <= j}

\* C31: the status events are in the chronological order of the pipeline,
\* and a run that reached the closing of its containers has emitted a status
\* event for every phase it went through: as the phases follow one another,
\* the status events from the end of the video negotiation onwards are at
\* least as many as the phases entered from there.
C31_StatusPerPhase ==
    /\ StatusChronological
    /\ ClosedReached =>
          Cardinality(StatusSinceNegotiation) >= PhasesSinceNegotiation

\* every frame the decoder gave was handed to the encoder and the encoder
\* was drained
AllEncoded(dec) == dec.submitted = dec.decoded /\ dec.buffered = 0

\* what a run that reports success has done
SuccessComplete ==
    /\ hist.vEnd
    /\ AllEncoded(vdec)
    /\ "video" \in hist.flushed
    /\ media.audio > 0 =>
          /\ audio_output_stream # 0
          /\ hist.aEnd
          /\ AllEncoded(adec)
          /\ "audio" \in hist.flushed
    /\ ~hist.observed

\* C32: once success is reported, the video loop ran until the input was
\* exhausted and every decoded video frame was encoded, likewise the audio
\* loop when the input has an audio stream, and both encoders were flushed,
\* whenever cancel() was called; the audio encoder is flushed only after the
\* video encoder.
C32_SuccessIsComplete ==
    /\ [](Outcome = "success" => SuccessComplete)
    /\ [][("audio" \in hist'.flushed /\ "audio" \notin hist.flushed)
             => "video" \in hist.flushed]_vars

\* success was reported for an input with two video frames and an audio
\* frame, and cancel() was called after the last read of the flag
C32_Witness ==
    /\ Outcome = "success"
    /\ is_cancelled
    /\ vdec.decoded = 2 /\ adec.decoded = 1
    /\ hist.flushed = {"video", "audio"}

BothClosed == input_container = "closed" /\ output_container = "closed"

\* the last event emitted so far is the terminal event
TerminalEmitted == events # <<>> /\ IsFinished(events[Len(events)])

\* the terminal event reports success or cancellation (lines 279 and 283)
ClosingOutcome(e) == e.success \/ e.msg = MsgCancelled

\* C33: when the terminal event of a successful or cancelled run is emitted
\* both containers are already closed; on success the progress value 100
\* stands before finished(True, ...); the terminal event is the last event
\* of the run: no progress or status event follows it.
C33_TerminalEventLast ==
    /\ [](/\ \A i \in 1..(Len(events) - 1) : ~IsFinished(events[i])
          /\ TerminalEmitted =>
                LET n == Len(events)
                IN  /\ ClosingOutcome(events[n]) => BothClosed
                    /\ events[n].success =>
                          n > 1 /\ events[n - 1] = Progress(100))
    /\ [][runs' = runs =>
             /\ (~TerminalEmitted /\ TerminalEmitted'
                    /\ ClosingOutcome(events'[Len(events')])) => BothClosed
             /\ TerminalEmitted => events' = events]_vars

\* a successful run of two frames out of an estimated 30: the progress
\* values 3 and 6 of the frames, then the 100 of line 282, then the terminal
\* event, with both containers closed
C33_Witness ==
    /\ RunEnded
    /\ Outcome = "success"
    /\ BothClosed
    /\ Len(ProgressEvents) = 3
    /\ ProgressEvents[2].value = 6
    /\ events[Len(events) - 1] = Progress(100)
    /\ IsFinished(events[Len(events)])

\* C34: once the video negotiation has succeeded the output container holds
\* exactly one video stream, the configured stream of the winning attempt,
\* whatever attempts failed before it; no video stream is added or removed
\* while the run encodes into the container.
C34_OnlyWinningStream ==
    /\ [](video_output_stream # 0 =>
             /\ VideoStreamsLeft = {video_output_stream}
             /\ out_streams[video_output_stream]
                  = VideoStream(hist.attempts[Len(hist.attempts)], TRUE))
    /\ [][(runs' = runs /\ video_output_stream # 0) =>
             /\ video_output_stream' = video_output_stream
             /\ VideoStreamsLeft' = VideoStreamsLeft]_vars

\* the third candidate won after two attempts failed, and the run went on
\* to mux a packet into the container
C34_Witness ==
    /\ Len(hist.attempts) = 3
    /\ video_output_stream # 0
    /\ Len(muxed) > 0
    /\ VideoStreamsLeft = {video_output_stream}

InVideoLoop == pc \in {"v_decode", "v_check", "v_encode", "v_progress"}

\* C35: while the video loop runs the progress denominator total_frames is
\* positive, whatever frame count, duration and average rate the container
\* reported; the progress computation never raises ZeroDivisionError and no
\* progress value is negative.
C35_PositiveDenominator ==
    /\ InVideoLoop => total_frames > 0
    /\ exc.type # "ZeroDivisionError"
    /\ \A i \in 1..Len(ProgressEvents) : ProgressEvents[i].value >= 0

\* C36: a frame is resized exactly when the resolution is not "original";
\* for every such resolution the frame handed to the encoder has the width
\* and height configured on the output stream, which for a value that is
\* none of 1080p, 720p and 480p are 1920 and 1080.
C36_ResizeMatchesStream ==
    DimensionsConfigured =>
        /\ call.ret.resized <=> call.resolution # "original"
        /\ call.resolution # "original" =>
              /\ call.ret.frame = call.ret.stream
              /\ call.resolution \notin {"1080p", "720p", "480p"} =>
                    call.ret.stream = <<1920, 1080>>

\* a 3840x2160 input with a resolution that is no key of the table: stream
\* and frames are 1920x1080
C36_Witness ==
    /\ DimensionsConfigured
    /\ call.resolution = "4k"
    /\ call.input = <<3840, 2160>>
    /\ call.ret.resized
    /\ call.ret.frame = <<1920, 1080>>
    /\ call.ret.stream = <<1920, 1080>>

====
